---- MODULE Spec2Model ----
\* A model of the HTTP/1.1 server of Abb133Se/http-server: the request parser
\* (ParseRequest), the response serializer (BuildResponse, SendResponse), the
\* router with the routes StartServer registers, the handlers, and the
\* per-connection worker (handleConnection).
\*
\* The specifications share the variables: Spec (the worker serving the
\* routes of StartServer), SpecParse and SpecBuild (ParseRequest and
\* BuildResponse as functions of their input), SpecRoute (a Router under
\* registration, then Route), SpecSend (SendResponse step by step, with
\* its bufio.Writer and the producer of a streamed response), SpecOversize
\* (the worker and a client that sends lines at and over the limits),
\* SpecFiles (handleFiles call after call on one file system), SpecLog (the
\* logger), SpecEdge (ParseRequest on request lines and Content-Length
\* values at the edges), SpecHeaders (ParseRequest on raw header lines),
\* SpecLive (the worker with a peer that may stop reading, under fairness),
\* SpecDeadline (the worker with a clock and its read deadline), SpecAccept
\* (the accept loop and the workers it starts) and SpecConcurrent (calls of
\* Router.Route by two workers at once).
\*
\* Byte strings are sequences of one-character strings; B("GET") is
\* <<"G", "E", "T">>.
EXTENDS Integers, Sequences, FiniteSets, TLC

VARIABLES
    pc,          \* position of the connection worker in handleConnection
    inbuf,       \* bytes the client has sent that the worker has not read yet
    peerClosed,  \* the client has closed its sending side
    req,         \* the request the worker is serving (NoReq outside an exchange)
    resp,        \* the response the router returned for req
    wire,        \* the responses written to the connection, in order
    fs,          \* the files of the file system: absolute path -> content
    closeCount,  \* how many times conn.Close() has run
    closeReason, \* which return of handleConnection ended the worker
    hist,        \* history of the connection (what the client sent, what was parsed)
    pin,         \* input of the pure-function specifications
    pout         \* result of the pure-function specifications

vars == <<pc, inbuf, peerClosed, req, resp, wire, fs, closeCount, closeReason,
          hist, pin, pout>>

connVars == <<pc, inbuf, peerClosed, req, resp, wire, fs, closeCount,
              closeReason, hist>>

-----------------------------------------------------------------------------
\* Bytes and the string functions of the Go standard library the code calls.

B(s) == [i \in 1..Len(s) |-> SubSeq(s, i, i)]

CR == "\r"
LF == "\n"
CRLF == <<CR, LF>>

HTTPVersion == B("HTTP/1.1")

MaxRequestLineLength == 4096

\* a limit on header lines twice as high
MaxHeaderLineLengthDoubled == 2 * 8192

MaxHeaderLineLength == 8192
MaxBodySize == 10485760

\* unicode.IsSpace restricted to the ASCII white space the model's alphabets hold
IsSpace(c) == c \in {" ", "\t", LF, CR, "\f"}

RECURSIVE TrimLeft(_)
TrimLeft(s) ==
    IF s # <<>> /\ IsSpace(Head(s)) THEN TrimLeft(Tail(s)) ELSE s

RECURSIVE TrimRight(_)
TrimRight(s) ==
    IF s # <<>> /\ IsSpace(s[Len(s)]) THEN TrimRight(SubSeq(s, 1, Len(s) - 1))
    ELSE s

\* strings.TrimSpace
TrimSpace(s) == TrimRight(TrimLeft(s))

\* strings.IndexByte: the first position of c in s, 0 when c is not in s
IndexByte(s, c) ==
    LET hits == {i \in 1..Len(s) : s[i] = c} IN
    IF hits = {} THEN 0 ELSE CHOOSE i \in hits : \A j \in hits : i <= j

\* strings.Split(s, sep) for a one-byte separator: every separator splits, so
\* two adjacent separators give an empty part
RECURSIVE Split(_, _)
Split(s, sep) ==
    LET i == IndexByte(s, sep) IN
    IF i = 0 THEN <<s>>
    ELSE <<SubSeq(s, 1, i - 1)>> \o Split(SubSeq(s, i + 1, Len(s)), sep)

\* strings.SplitN(s, sep, 2) for a one-byte separator: split at the first
\* separator only
SplitN2(s, sep) ==
    LET i == IndexByte(s, sep) IN
    IF i = 0 THEN <<s>>
    ELSE <<SubSeq(s, 1, i - 1), SubSeq(s, i + 1, Len(s))>>

UpperLetters == B("ABCDEFGHIJKLMNOPQRSTUVWXYZ")
LowerLetters == B("abcdefghijklmnopqrstuvwxyz")

LowerByte(c) ==
    LET i == IndexByte(UpperLetters, c) IN IF i = 0 THEN c ELSE LowerLetters[i]

UpperByte(c) ==
    LET i == IndexByte(LowerLetters, c) IN IF i = 0 THEN c ELSE UpperLetters[i]

\* strings.ToLower, strings.ToUpper
ToLower(s) == [i \in 1..Len(s) |-> LowerByte(s[i])]
ToUpper(s) == [i \in 1..Len(s) |-> UpperByte(s[i])]

\* strings.HasPrefix
HasPrefix(s, p) == Len(s) >= Len(p) /\ SubSeq(s, 1, Len(p)) = p

\* strings.Index: the first position where sub occurs in s, 0 when it does not
Index(s, sub) ==
    LET hits == {i \in 1..(Len(s) - Len(sub) + 1) :
                    SubSeq(s, i, i + Len(sub) - 1) = sub} IN
    IF hits = {} THEN 0 ELSE CHOOSE i \in hits : \A j \in hits : i <= j

Digits == B("0123456789")

IsDigit(c) == IndexByte(Digits, c) # 0

DigitVal(c) == IndexByte(Digits, c) - 1

RECURSIVE DigitsVal(_)
DigitsVal(s) ==
    IF s = <<>> THEN 0
    ELSE 10 * DigitsVal(SubSeq(s, 1, Len(s) - 1)) + DigitVal(s[Len(s)])

RECURSIVE TrimZeros(_)
TrimZeros(ds) ==
    IF Len(ds) > 1 /\ Head(ds) = "0" THEN TrimZeros(Tail(ds)) ELSE ds

\* a > b for digit strings of one length
RECURSIVE DigitsGreater(_, _)
DigitsGreater(a, b) ==
    IF a = <<>> THEN FALSE
    ELSE IF Head(a) # Head(b) THEN DigitVal(Head(a)) > DigitVal(Head(b))
    ELSE DigitsGreater(Tail(a), Tail(b))

\* whether the digits ds, negated or not, lie outside a 64-bit int
OutOfRange(ds, negative) ==
    LET t == TrimZeros(ds)
        most == IF negative THEN B("9223372036854775808")
                ELSE B("9223372036854775807")
    IN  Len(t) > Len(most) \/ (Len(t) = Len(most) /\ DigitsGreater(t, most))

\* strconv.Atoi: an optional sign and at least one decimal digit; anything else
\* is a syntax error, and a value outside int a range error
Atoi(s) ==
    LET signed == s # <<>> /\ Head(s) \in {"+", "-"}
        ds == IF signed THEN Tail(s) ELSE s
    IN  IF ds = <<>> \/ \E i \in 1..Len(ds) : ~IsDigit(ds[i])
        THEN [ok |-> FALSE, n |-> 0]
        ELSE IF OutOfRange(ds, signed /\ Head(s) = "-")
        THEN [ok |-> FALSE, n |-> 0]
        ELSE [ok |-> TRUE,
              n |-> IF signed /\ Head(s) = "-" THEN 0 - DigitsVal(ds)
                    ELSE DigitsVal(ds)]

\* strconv.Itoa
RECURSIVE Itoa(_)
Itoa(n) ==
    IF n < 0 THEN <<"-">> \o Itoa(0 - n)
    ELSE IF n < 10 THEN <<Digits[n + 1]>>
    ELSE Itoa(n \div 10) \o <<Digits[(n % 10) + 1]>>

\* A Go map[string]string as a function from keys to values.
EmptyMap == [k \in {} |-> <<>>]
MapSet(h, k, v) == [x \in (DOMAIN h) \cup {k} |-> IF x = k THEN v ELSE h[x]]
HasKey(h, k) == k \in DOMAIN h
\* indexing a map yields the zero value "" for a missing key
MapGet(h, k) == IF k \in DOMAIN h THEN h[k] ELSE <<>>

-----------------------------------------------------------------------------
\* ParseRequest (the revision with the line and body limits).
\*
\* s is what the connection delivers to this call and end says what follows
\* it: "open" (more bytes may come, a read that runs out of bytes blocks),
\* "eof" (the peer closed after s) or "timeout" (the read deadline passed).

NoParams == [set |-> FALSE, m |-> EmptyMap]

NoReq == [Method |-> <<>>, Path |-> <<>>, Version |-> <<>>,
          Headers |-> EmptyMap, Body |-> <<>>, Params |-> NoParams]

\* errors.Is(err, io.EOF): io.EOF itself or an error that wraps it with %w
ErrorsIsEOF(err) == err \in {"EOF", "failed to read header: EOF",
                             "failed to read body: EOF"}

\* bufio.Reader.ReadString('\n') on the bytes of s from position pos on:
\* n > 0 is the length of the line read, the delimiter included
ReadString(s, pos, end) ==
    LET rest == SubSeq(s, pos, Len(s))
        i == IndexByte(rest, LF)
    IN  IF i > 0 THEN [err |-> "", n |-> i, line |-> SubSeq(rest, 1, i)]
        ELSE [err |-> IF end = "eof" THEN "EOF"
                      ELSE IF end = "timeout" THEN "i/o timeout" ELSE "block",
              n |-> Len(rest), line |-> rest]

\* io.ReadFull(reader, body) for len(body) = n >= 0
ReadFull(s, pos, n, end) ==
    LET rest == SubSeq(s, pos, Len(s)) IN
    IF Len(rest) >= n THEN [err |-> "", data |-> SubSeq(rest, 1, n)]
    ELSE [err |-> IF end = "eof"
                  THEN (IF rest = <<>> THEN "EOF" ELSE "unexpected EOF")
                  ELSE IF end = "timeout" THEN "i/o timeout" ELSE "block",
          data |-> rest]

Failed(e, used) == [err |-> e, req |-> NoReq, used |-> used]

\* a body reader that takes the length of the header's text for the length of
\* the body
ParseBodyLenOfValue(s, pos, end, r) ==
    IF ~HasKey(r.Headers, B("content-length"))
    THEN [err |-> "", req |-> r, used |-> pos - 1]
    ELSE
        LET n == Len(r.Headers[B("content-length")])
            rd == ReadFull(s, pos, n, end) IN
        IF rd.err # ""
        THEN Failed("failed to read body: " \o rd.err, Len(s))
        ELSE [err |-> "", req |-> [r EXCEPT !.Body = rd.data],
              used |-> pos - 1 + n]

\* the body, once the header block is read (lines 103-122)
ParseBody(s, pos, end, r) ==
    IF ~HasKey(r.Headers, B("content-length"))
    THEN [err |-> "", req |-> r, used |-> pos - 1]
    ELSE
        LET cl == Atoi(r.Headers[B("content-length")]) IN
        IF ~cl.ok THEN Failed("invalid Content-Length", pos - 1)
        ELSE IF cl.n > MaxBodySize THEN Failed("request body too large", pos - 1)
        ELSE IF cl.n < 0 THEN Failed("panic: makeslice: len out of range", pos - 1)
        ELSE
            LET rd == ReadFull(s, pos, cl.n, end) IN
            IF rd.err = "block" THEN Failed("block", pos - 1)
            ELSE IF rd.err # ""
            THEN Failed("failed to read body: " \o rd.err, Len(s))
            ELSE [err |-> "", req |-> [r EXCEPT !.Body = rd.data],
                  used |-> pos - 1 + cl.n]

\* a header line stored under its name as sent
AddHeaderKeepCase(h, line) ==
    LET headerParts == SplitN2(line, ":") IN
    IF Len(headerParts) = 2
    THEN MapSet(h, TrimSpace(headerParts[1]), TrimSpace(headerParts[2]))
    ELSE h

\* a header line split at its last colon
AddHeaderLastColon(h, line) ==
    LET colons == {i \in 1..Len(line) : line[i] = ":"}
        last == CHOOSE i \in colons : \A j \in colons : j <= i
    IN  IF colons # {}
        THEN MapSet(h, ToLower(TrimSpace(SubSeq(line, 1, last - 1))),
                    TrimSpace(SubSeq(line, last + 1, Len(line))))
        ELSE h

\* one header line into the map (lines 93-100): split at the first colon, trim
\* both sides, lowercase the key; a line without a colon is skipped
AddHeader(h, line) ==
    LET headerParts == SplitN2(line, ":") IN
    IF Len(headerParts) = 2
    THEN MapSet(h, ToLower(TrimSpace(headerParts[1])), TrimSpace(headerParts[2]))
    ELSE h

\* the header loop (lines 77-101), then the body
RECURSIVE ParseHeaders(_, _, _, _)
ParseHeaders(s, pos, end, r) ==
    LET rd == ReadString(s, pos, end)
        line == TrimSpace(rd.line)
    IN  IF rd.err = "block" THEN Failed("block", pos - 1)
        ELSE IF rd.err # ""
        THEN Failed("failed to read header: " \o rd.err, Len(s))
        ELSE IF line = <<>> THEN ParseBody(s, pos + rd.n, end, r)
        ELSE IF Len(line) > MaxHeaderLineLength
        THEN Failed("header line too long", pos + rd.n - 1)
        ELSE ParseHeaders(s, pos + rd.n, end,
                          [r EXCEPT !.Headers = AddHeader(r.Headers, line)])

ParseRequest(s, end) ==
    LET rd == ReadString(s, 1, end)
        requestLine == TrimSpace(rd.line)
        parts == Split(requestLine, " ")
    IN  IF rd.err = "block" THEN Failed("block", 0)
        ELSE IF rd.err = "EOF" THEN Failed("EOF", Len(s))
        ELSE IF rd.err # ""
        THEN Failed("failed to read request lines: " \o rd.err, Len(s))
        ELSE IF Len(requestLine) > MaxRequestLineLength
        THEN Failed("request line too long", rd.n)
        ELSE IF Len(parts) # 3 THEN Failed("malformed request line", rd.n)
        ELSE ParseHeaders(s, rd.n + 1, end,
                          [NoReq EXCEPT !.Method = parts[1], !.Path = parts[2],
                                        !.Version = parts[3]])

-----------------------------------------------------------------------------
\* ParseRequest as a pure function: the inputs are request texts put together
\* from a request line, header lines, a line terminator and the bytes that
\* follow the blank line.

MaxHeaders == 2
MaxPayload == 2

RECURSIVE SeqsUpTo(_, _)
SeqsUpTo(S, n) ==
    IF n = 0 THEN {<<>>}
    ELSE LET shorter == SeqsUpTo(S, n - 1) IN
         shorter \cup {Append(q, x) : q \in shorter, x \in S}

Methods == {B("GET"), B("PoSt")}
Paths == {B("/"), B("/a:b")}
HeaderLines ==
    {[name |-> B("Content-Length"), value |-> B("0")],
     [name |-> B("content-length"), value |-> B("2")],
     [name |-> B("CONTENT-LENGTH"), value |-> B("1")],
     [name |-> B("Content-Length"), value |-> B("-1")],
     [name |-> B("Content-Length"), value |-> B("x")],
     [name |-> B("X-A"), value |-> B("b:c d")],
     [name |-> B("x-a"), value |-> B("")]}
PayloadBytes == {"h", LF}
Terminators == {CRLF, <<LF>>}

ParseInputs ==
    [method : Methods, path : Paths, version : {HTTPVersion},
     hdrs : SeqsUpTo(HeaderLines, MaxHeaders),
     payload : SeqsUpTo(PayloadBytes, MaxPayload),
     nl : Terminators, end : {"eof", "timeout"}]

RECURSIVE FormatHeaders(_, _)
FormatHeaders(hdrs, nl) ==
    IF hdrs = <<>> THEN <<>>
    ELSE Head(hdrs).name \o B(": ") \o Head(hdrs).value \o nl
         \o FormatHeaders(Tail(hdrs), nl)

\* the text of a request as a client writes it
Format(in) ==
    in.method \o B(" ") \o in.path \o B(" ") \o in.version \o in.nl
    \o FormatHeaders(in.hdrs, in.nl) \o in.nl \o in.payload

NoOut == [err |-> "none", req |-> NoReq, used |-> 0]
NoIn == [method |-> <<>>, path |-> <<>>, version |-> <<>>, hdrs |-> <<>>,
         payload |-> <<>>, nl |-> CRLF, end |-> "eof"]

IdleConn ==
    /\ pc = "Pure"
    /\ inbuf = <<>>
    /\ peerClosed = FALSE
    /\ req = NoReq
    /\ resp = [Status |-> 0]
    /\ wire = <<>>
    /\ fs = EmptyMap
    /\ closeCount = 0
    /\ closeReason = ""
    /\ hist = [sent |-> <<>>]

InitParse ==
    /\ IdleConn
    /\ pin \in ParseInputs
    /\ pout = NoOut

ParseApply ==
    /\ pout = NoOut
    /\ pout' = ParseRequest(Format(pin), pin.end)
    /\ UNCHANGED <<connVars, pin>>

NextParse == ParseApply

SpecParse == InitParse /\ [][NextParse]_vars

-----------------------------------------------------------------------------
\* Responses. A Response's Headers is a Go map that may be nil: nil says so,
\* and m holds the entries (header name -> value bytes).

NilMap == [nil |-> TRUE, m |-> EmptyMap]
GoMap(m) == [nil |-> FALSE, m |-> m]

\* every order in which ranging over a map with key set S can visit its keys
Orders(S) ==
    {q \in [1..Cardinality(S) -> S] : \A i, j \in DOMAIN q : q[i] = q[j] => i = j}

\* fmt.Sprintf("%s %d %s%s", version, status, reason, CRLF)
StatusLine(version, status, reason) ==
    version \o B(" ") \o Itoa(status) \o B(" ") \o reason \o CRLF

\* fmt.Sprintf("%s: %s%s", k, v, CRLF)
HeaderLine(k, v) == B(k) \o B(": ") \o v \o CRLF

RECURSIVE HeaderBlock(_, _)
HeaderBlock(h, order) ==
    IF order = <<>> THEN <<>>
    ELSE HeaderLine(Head(order), h[Head(order)]) \o HeaderBlock(h, Tail(order))

\* headers that always carry the computed Content-Length
BuildHeadersForceLength(headers, body) ==
    LET h1 == IF HasKey(headers.m, "Content-Type") THEN headers.m
              ELSE MapSet(headers.m, "Content-Type", B("text/plain"))
    IN  MapSet(h1, "Content-Length", Itoa(Len(body)))

\* BuildResponse, lines 71-81: a nil map is replaced by an empty one, then
\* Content-Type and Content-Length are set unless the caller set them
BuildHeaders(headers, body) ==
    LET h0 == IF headers.nil THEN EmptyMap ELSE headers.m
        h1 == IF HasKey(h0, "Content-Type") THEN h0
              ELSE MapSet(h0, "Content-Type", B("text/plain"))
    IN  IF HasKey(h1, "Content-Length") THEN h1
        ELSE MapSet(h1, "Content-Length", Itoa(Len(body)))

\* BuildResponse, lines 83-93; order is the order in which the range over the
\* header map visits the keys
BuildResponse(status, reason, headers, body, order) ==
    LET h == BuildHeaders(headers, body) IN
    StatusLine(HTTPVersion, status, reason) \o HeaderBlock(h, order) \o CRLF
    \o body

LongBody == B("hello, world")

BuildInputs ==
    [status : {200, 404},
     reason : {B("OK"), B("Not Found"), <<>>},
     headers : {NilMap, GoMap(EmptyMap),
                GoMap([k \in {"Content-Type"} |-> B("text/html")]),
                GoMap([k \in {"Content-Length"} |-> B("5")]),
                GoMap([k \in {"X-A"} |-> B("a: b")]),
                GoMap([k \in {"X-A", "Content-Type"} |->
                          IF k = "X-A" THEN B("") ELSE B("text/html")]),
                GoMap([k \in {"Content-Length", "Content-Type"} |->
                          IF k = "Content-Length" THEN B("0") ELSE B("a/b")])},
     body : SeqsUpTo({"h", LF}, MaxPayload) \cup {LongBody}]

InitBuild ==
    /\ IdleConn
    /\ pin \in BuildInputs
    /\ pout = NoOut

BuildApply ==
    /\ pout = NoOut
    /\ \E order \in Orders(DOMAIN BuildHeaders(pin.headers, pin.body)) :
          pout' = [err |-> "",
                   out |-> BuildResponse(pin.status, pin.reason, pin.headers,
                                         pin.body, order)]
    /\ UNCHANGED <<connVars, pin>>

NextBuild == BuildApply

SpecBuild == InitBuild /\ [][NextBuild]_vars

-----------------------------------------------------------------------------
\* Claims about BuildResponse, under SpecBuild.

\* the lines of a header block, without their CRLF
RECURSIVE LinesOf(_)
LinesOf(block) ==
    IF block = <<>> THEN <<>>
    ELSE LET i == Index(block, CRLF) IN
         <<SubSeq(block, 1, i - 1)>> \o LinesOf(SubSeq(block, i + 2, Len(block)))

\* the headers the output has to carry: the caller's, and the two defaults
\* where the caller gave none
WantedHeaders(in) ==
    LET given == IF in.headers.nil THEN EmptyMap ELSE in.headers.m IN
    [k \in (DOMAIN given) \cup {"Content-Type", "Content-Length"} |->
        IF k \in DOMAIN given THEN given[k]
        ELSE IF k = "Content-Type" THEN B("text/plain")
        ELSE Itoa(Len(in.body))]

\* C6: the output of BuildResponse is the status line, one "Key: Value" line
\* for each of the caller's headers (values unchanged) and for Content-Length
\* (the body length) and Content-Type (text/plain) where the caller gave none,
\* a blank line, and then exactly the body.
BuildResponseLayout ==
    pout # NoOut =>
        LET first == B("HTTP/1.1 ") \o Itoa(pin.status) \o B(" ") \o pin.reason
                     \o CRLF
            after == SubSeq(pout.out, Len(first) + 1, Len(pout.out))
            blank == Index(after, CRLF \o CRLF)
            lines == LinesOf(SubSeq(after, 1, blank + 1))
            want == WantedHeaders(pin)
        IN  /\ HasPrefix(pout.out, first)
            /\ blank > 0
            /\ Len(lines) = Cardinality(DOMAIN want)
            /\ {lines[i] : i \in 1..Len(lines)}
                 = {B(k) \o B(": ") \o want[k] : k \in DOMAIN want}
            /\ SubSeq(after, blank + 4, Len(after)) = pin.body

\* a response was built from a nil header map and a two-byte body
BuildResponseLayoutWitness ==
    /\ pout # NoOut
    /\ pin.headers.nil
    /\ Len(pin.body) = 2

-----------------------------------------------------------------------------
\* Claims about ParseRequest, under SpecParse.

\* the positions of the header lines of in named key, whatever their case
Named(in, key) == {i \in 1..Len(in.hdrs) : ToLower(in.hdrs[i].name) = key}

Last(S) == CHOOSE i \in S : \A j \in S : j <= i

\* the value a client declares for key: that of the last line so named
Declared(in, key) == in.hdrs[Last(Named(in, key))].value

\* a request as the claim describes it: CRLF line ends, values free of
\* surrounding blanks, and a body as long as the Content-Length it declares
WellFormed(in) ==
    /\ in.nl = CRLF
    /\ \A i \in 1..Len(in.hdrs) : TrimSpace(in.hdrs[i].value) = in.hdrs[i].value
    /\ IF Named(in, B("content-length")) = {} THEN in.payload = <<>>
       ELSE Declared(in, B("content-length")) = Itoa(Len(in.payload))

ExpectedHeaders(in) ==
    [k \in {ToLower(in.hdrs[i].name) : i \in 1..Len(in.hdrs)} |-> Declared(in, k)]

\* C9: parsing the text of a well-formed request gives back its method, path
\* and version, every header under its lowercased name, and its body bytes.
ParseRoundTrip ==
    (pout # NoOut /\ WellFormed(pin)) =>
        /\ pout.err = ""
        /\ pout.req.Method = pin.method
        /\ pout.req.Path = pin.path
        /\ pout.req.Version = pin.version
        /\ pout.req.Headers = ExpectedHeaders(pin)
        /\ pout.req.Body = pin.payload

\* a well-formed request with a mixed-case header and a two-byte body was parsed
ParseRoundTripWitness ==
    /\ pout # NoOut
    /\ WellFormed(pin)
    /\ Len(pin.hdrs) = 2
    /\ pin.hdrs[1].name = B("X-A")
    /\ Len(pin.payload) = 2

\* C10: after a successful parse, a request that declared Content-Length N has
\* as body exactly the first N bytes after the blank line, and a request that
\* declared none has an empty body.
BodyIsDeclaredLength ==
    (pout # NoOut /\ pout.err = "") =>
        IF Named(pin, B("content-length")) = {} THEN pout.req.Body = <<>>
        ELSE LET N == Atoi(Declared(pin, B("content-length"))).n IN
             /\ Len(pout.req.Body) = N
             /\ pout.req.Body = SubSeq(pin.payload, 1, N)

\* a request declaring one byte and followed by two was parsed successfully
BodyIsDeclaredLengthWitness ==
    /\ pout # NoOut
    /\ pout.err = ""
    /\ Named(pin, B("content-length")) # {}
    /\ Declared(pin, B("content-length")) = B("1")
    /\ Len(pin.payload) = 2

-----------------------------------------------------------------------------
\* The standard responses and the handlers.

\* a response without a StreamFunc; a StreamFunc is the chunks it writes and
\* whether it then returns an error
NoStream == [nil |-> TRUE, chunks |-> <<>>, fails |-> FALSE]

Response(status, reason, headers, body) ==
    [Version |-> HTTPVersion, Status |-> status, Reason |-> B(reason),
     Headers |-> GoMap(headers), Body |-> body, Stream |-> NoStream]

ContentType(v) == [k \in {"Content-Type"} |-> B(v)]

BadRequestResponse ==
    Response(400, "Bad Request", ContentType("text/plain"), B("400 Bad Request"))

NotFoundResponse ==
    Response(404, "Not Found", ContentType("text/plain"), B("404 Not Found"))

MethodNotAllowedResponse(allow) ==
    Response(405, "Method Not Allowed",
             MapSet(ContentType("text/plain"), "Allow", B(allow)),
             B("405 Method Not Allowed"))

OptionsResponse(allow) ==
    Response(204, "No Content", [k \in {"Allow"} |-> B(allow)], B(allow))

\* strings.SplitN(s, sep, 2): split at the first occurrence of sep
SplitAt(s, sep) ==
    LET i == Index(s, sep) IN
    IF i = 0 THEN <<s>>
    ELSE <<SubSeq(s, 1, i - 1), SubSeq(s, i + Len(sep), Len(s))>>

\* a HEAD request gets the headers of the GET response and no body
BodyFor(r, body) == IF r.Method = B("HEAD") THEN <<>> ELSE body

handleRoot(r) ==
    IF r.Method \in {B("GET"), B("HEAD")}
    THEN Response(200, "OK", ContentType("text/plain"),
                  BodyFor(r, B("Welcome to my HTTP server")))
    ELSE IF r.Method = B("OPTIONS") THEN OptionsResponse("GET, HEAD, OPTIONS")
    ELSE MethodNotAllowedResponse("GET, HEAD, OPTIONS")

handleEcho(r) ==
    LET parts == SplitAt(r.Path, B("/echo/"))
        message == IF Len(parts) = 2 THEN parts[2] ELSE <<>>
    IN  IF r.Method \in {B("GET"), B("HEAD")}
        THEN Response(200, "OK", ContentType("text/plain"), BodyFor(r, message))
        ELSE IF r.Method = B("OPTIONS")
        THEN OptionsResponse("GET, HEAD, OPTIONS")
        ELSE MethodNotAllowedResponse("GET, HEAD, OPTIONS")

handleUserAgent(r) ==
    IF r.Method \in {B("GET"), B("HEAD")}
    THEN Response(200, "OK", ContentType("text/plain"),
                  BodyFor(r, MapGet(r.Headers, B("user-agent"))))
    ELSE IF r.Method = B("OPTIONS") THEN OptionsResponse("GET, HEAD, OPTIONS")
    ELSE MethodNotAllowedResponse("GET, HEAD, OPTIONS")

\* filepath.Ext: from the last dot of the last path element on
Ext(path) ==
    LET dots == {i \in 1..Len(path) :
                    path[i] = "." /\ \A j \in i..Len(path) : path[j] # "/"} IN
    IF dots = {} THEN <<>> ELSE SubSeq(path, Last(dots), Len(path))

\* mime.TypeByExtension, for the extensions of the built-in table the model uses
TypeByExtension(ext) ==
    IF ext = B(".html") THEN B("text/html; charset=utf-8")
    ELSE IF ext = B(".json") THEN B("application/json")
    ELSE <<>>

\* getPublicDir: the directory public under the working directory
PublicDir == B("/srv/public")

\* filepath.Clean of an absolute path, segment by segment: empty segments and
\* "." are dropped, ".." drops the segment before it and stays at the root
RECURSIVE CleanSegments(_, _)
CleanSegments(segs, kept) ==
    IF segs = <<>> THEN kept
    ELSE IF Head(segs) \in {<<>>, B(".")} THEN CleanSegments(Tail(segs), kept)
    ELSE IF Head(segs) = B("..")
    THEN CleanSegments(Tail(segs),
                       IF kept = <<>> THEN kept
                       ELSE SubSeq(kept, 1, Len(kept) - 1))
    ELSE CleanSegments(Tail(segs), Append(kept, Head(segs)))

RECURSIVE JoinSegments(_)
JoinSegments(segs) ==
    IF segs = <<>> THEN <<>>
    ELSE <<"/">> \o Head(segs) \o JoinSegments(Tail(segs))

Clean(path) ==
    LET kept == CleanSegments(Split(path, "/"), <<>>) IN
    IF kept = <<>> THEN <<"/">> ELSE JoinSegments(kept)

\* filepath.Join(getPublicDir(), name): the two joined by a separator, and
\* cleaned; the result is the key of the file in fs
FilePath(name) == Clean(PublicDir \o <<"/">> \o name)

\* a write that adds the data to what the file already holds
WriteFileAppending(files, path, data) ==
    MapSet(files, path, MapGet(files, path) \o data)

\* os.WriteFile(path, data, 0644) when it succeeds: the file is created or
\* truncated, and holds the data
WriteFile(files, path, data) == MapSet(files, path, data)

\* handleFiles; files is the content of the public directory and ioOK says
\* whether the file system call the handler makes succeeds where it can
handleFiles(r, files, ioOK) ==
    LET parts == SplitAt(r.Path, B("/files/")) IN
    IF Len(parts) < 2 \/ parts[2] = <<>>
    THEN [resp |-> Response(400, "Bad Request", ContentType("text/plain"),
                            B("No file specified")),
          fs |-> files]
    ELSE
      LET filePath == FilePath(parts[2]) IN
      IF r.Method \in {B("GET"), B("HEAD")}
      THEN IF ~HasKey(files, filePath) \/ ~ioOK
           THEN [resp |-> NotFoundResponse, fs |-> files]
           ELSE LET data == files[filePath]
                    mimeType == IF TypeByExtension(Ext(filePath)) = <<>>
                                THEN B("application/octet-stream")
                                ELSE TypeByExtension(Ext(filePath))
                IN  [resp |-> [Version |-> HTTPVersion, Status |-> 200,
                               Reason |-> B("OK"),
                               Headers |-> GoMap(
                                   [k \in {"Content-Type", "Content-Length"} |->
                                       IF k = "Content-Type" THEN mimeType
                                       ELSE Itoa(Len(data))]),
                               Body |-> BodyFor(r, data), Stream |-> NoStream],
                     fs |-> files]
      ELSE IF r.Method \in {B("POST"), B("PUT")}
      THEN IF ~ioOK
           THEN [resp |-> Response(500, "Internal Server Error",
                                   ContentType("text/plain"),
                                   B("Failed to write file")),
                 fs |-> files]
           ELSE [resp |-> Response(IF r.Method = B("PUT") THEN 200 ELSE 201,
                                   IF r.Method = B("PUT") THEN "OK" ELSE "Created",
                                   ContentType("text/plain"),
                                   B("File written successfully")),
                 fs |-> WriteFile(files, filePath, r.Body)]
      ELSE IF r.Method = B("DELETE")
      THEN IF ~HasKey(files, filePath) \/ ~ioOK
           THEN [resp |-> NotFoundResponse, fs |-> files]
           ELSE [resp |-> Response(204, "No Content", EmptyMap, <<>>),
                 fs |-> [k \in (DOMAIN files) \ {filePath} |-> files[k]]]
      ELSE IF r.Method = B("OPTIONS")
      THEN [resp |-> OptionsResponse("GET, HEAD, OPTIONS"), fs |-> files]
      ELSE [resp |-> MethodNotAllowedResponse(
                         "GET, HEAD, POST, PUT, DELETE, OPTIONS"),
            fs |-> files]

\* handleUserByID, the handler of a regex route
handleUserByID(r) ==
    Response(200, "OK", ContentType("text/plain"),
             B("Matched user path: ") \o r.Path)

\* a HandlerFunc call: the response, and the public directory after it
Call(handler, r, files, ioOK) ==
    IF handler = "handleFiles" THEN handleFiles(r, files, ioOK)
    ELSE [resp |-> IF handler = "handleRoot" THEN handleRoot(r)
                   ELSE IF handler = "handleEcho" THEN handleEcho(r)
                   ELSE IF handler = "handleUserByID" THEN handleUserByID(r)
                   ELSE handleUserAgent(r),
          fs |-> files]

-----------------------------------------------------------------------------
\* The router.

NoRegex == [nil |-> TRUE, accepts |-> {}]

\* regexp.MatchString: a compiled pattern is the set of paths it accepts
MatchString(re, path) == path \in re.accepts

\* Router.Handle, Router.HandlePrefix: the method is stored in upper case
ExactRoute(path, method, handler) ==
    [pattern |-> B(path), method |-> ToUpper(B(method)), handler |-> handler,
     isPrefix |-> FALSE, regex |-> NoRegex]

PrefixRoute(prefix, method, handler) ==
    [pattern |-> B(prefix), method |-> ToUpper(B(method)), handler |-> handler,
     isPrefix |-> TRUE, regex |-> NoRegex]

\* the routes StartServer registers, in its order
ServerRouter ==
    [routes |-> <<ExactRoute("/", "GET", "handleRoot"),
                  ExactRoute("/", "HEAD", "handleRoot"),
                  ExactRoute("/", "OPTIONS", "handleRoot"),
                  PrefixRoute("/echo/", "GET", "handleEcho"),
                  PrefixRoute("/echo/", "HEAD", "handleEcho"),
                  PrefixRoute("/echo/", "OPTIONS", "handleEcho"),
                  ExactRoute("/user-agent", "GET", "handleUserAgent"),
                  PrefixRoute("/echo/", "HEAD", "handleUserAgent"),
                  PrefixRoute("/echo/", "OPTIONS", "handleUserAgent"),
                  PrefixRoute("/files/", "GET", "handleFiles"),
                  PrefixRoute("/files/", "HEAD", "handleFiles"),
                  PrefixRoute("/files/", "POST", "handleFiles"),
                  PrefixRoute("/files/", "PUT", "handleFiles"),
                  PrefixRoute("/files/", "DELET", "handleFiles"),
                  PrefixRoute("/files/", "OPTIONS", "handleFiles")>>,
     groups |-> <<>>]

\* extractParams naming each parameter by its whole segment, ':' included
extractParamsKeepColon(pattern, path) ==
    LET patternParts == Split(pattern, "/")
        pathParts == Split(path, "/")
        isParam(i) == HasPrefix(patternParts[i], <<":">>)
    IN  IF Len(patternParts) # Len(pathParts) THEN [set |-> FALSE, m |-> EmptyMap]
        ELSE IF \E i \in 1..Len(patternParts) :
                    ~isParam(i) /\ patternParts[i] # pathParts[i]
        THEN [set |-> FALSE, m |-> EmptyMap]
        ELSE LET names == {patternParts[i] :
                              i \in {j \in 1..Len(patternParts) : isParam(j)}}
             IN  [set |-> TRUE,
                  m |-> [n \in names |->
                           pathParts[Last({i \in 1..Len(patternParts) :
                                 isParam(i) /\ patternParts[i] = n})]]]

\* extractParams: nil unless pattern and path have as many segments and the
\* segments not starting with ':' are equal
extractParams(pattern, path) ==
    LET patternParts == Split(pattern, "/")
        pathParts == Split(path, "/")
        isParam(i) == HasPrefix(patternParts[i], <<":">>)
    IN  IF Len(patternParts) # Len(pathParts) THEN [set |-> FALSE, m |-> EmptyMap]
        ELSE IF \E i \in 1..Len(patternParts) :
                    ~isParam(i) /\ patternParts[i] # pathParts[i]
        THEN [set |-> FALSE, m |-> EmptyMap]
        ELSE LET names == {Tail(patternParts[i]) :
                              i \in {j \in 1..Len(patternParts) : isParam(j)}}
             IN  [set |-> TRUE,
                  m |-> [n \in names |->
                           pathParts[Last({i \in 1..Len(patternParts) :
                                 isParam(i) /\ Tail(patternParts[i]) = n})]]]

\* a method test that compares the request's method as the client wrote it
MethodAllowsExactCase(route, r) ==
    route.method = <<>> \/ route.method = r.Method

\* the method test of the route loops (lines 137 and 160)
MethodAllows(route, r) == route.method = <<>> \/ route.method = ToUpper(r.Method)

\* a first loop that takes every route without ':' for a prefix route
TopLevelMatchExactAsPrefix(route, r) ==
    IF ~route.regex.nil /\ MatchString(route.regex, r.Path)
    THEN [hit |-> TRUE, params |-> r.Params]
    ELSE IF IndexByte(route.pattern, ":") # 0
    THEN LET params == extractParams(route.pattern, r.Path) IN
         [hit |-> params.set,
          params |-> IF params.set THEN params ELSE r.Params]
    ELSE [hit |-> HasPrefix(r.Path, route.pattern), params |-> r.Params]

\* one pass of the first loop of Router.Route over a route whose method
\* allows the request (lines 140-156): whether its handler is called, and
\* the Params the request then carries
TopLevelMatch(route, r) ==
    IF ~route.regex.nil /\ MatchString(route.regex, r.Path)
    THEN [hit |-> TRUE, params |-> r.Params]
    ELSE IF IndexByte(route.pattern, ":") # 0
    THEN LET params == extractParams(route.pattern, r.Path) IN
         [hit |-> params.set,
          params |-> IF params.set THEN params ELSE r.Params]
    ELSE IF route.pattern = r.Path THEN [hit |-> TRUE, params |-> r.Params]
    ELSE [hit |-> route.isPrefix /\ HasPrefix(r.Path, route.pattern),
          params |-> r.Params]

RECURSIVE Flatten(_)
Flatten(groups) ==
    IF groups = <<>> THEN <<>> ELSE Head(groups).routes \o Flatten(Tail(groups))

\* a Route that hands a request no route matches to the last top-level route
RouteFallsBackToLast(router, r, files, ioOK) ==
    LET top == {i \in 1..Len(router.routes) :
                   /\ MethodAllows(router.routes[i], r)
                   /\ TopLevelMatch(router.routes[i], r).hit}
        grouped == Flatten(router.groups)
        grp == {i \in 1..Len(grouped) :
                   MethodAllows(grouped[i], r) /\ grouped[i].pattern = r.Path}
        First(S) == CHOOSE i \in S : \A j \in S : i <= j
    IN  IF top # {}
        THEN LET route == router.routes[First(top)]
                 r2 == [r EXCEPT !.Params = TopLevelMatch(route, r).params]
             IN  Call(route.handler, r2, files, ioOK)
                    @@ [handler |-> route.handler, req |-> r2]
        ELSE IF grp # {}
        THEN Call(grouped[First(grp)].handler, r, files, ioOK)
                @@ [handler |-> grouped[First(grp)].handler, req |-> r]
        ELSE IF router.routes # <<>>
        THEN Call(router.routes[Len(router.routes)].handler, r, files, ioOK)
                @@ [handler |-> router.routes[Len(router.routes)].handler,
                    req |-> r]
        ELSE [resp |-> NotFoundResponse, fs |-> files, handler |-> "", req |-> r]

\* Router.Route: the first top-level route that matches, else the first
\* grouped route whose pattern equals the path, else 404. handler is the name
\* of the handler called, "" when none is
Route(router, r, files, ioOK) ==
    LET top == {i \in 1..Len(router.routes) :
                   /\ MethodAllows(router.routes[i], r)
                   /\ TopLevelMatch(router.routes[i], r).hit}
        grouped == Flatten(router.groups)
        grp == {i \in 1..Len(grouped) :
                   MethodAllows(grouped[i], r) /\ grouped[i].pattern = r.Path}
        First(S) == CHOOSE i \in S : \A j \in S : i <= j
    IN  IF top # {}
        THEN LET route == router.routes[First(top)]
                 r2 == [r EXCEPT !.Params = TopLevelMatch(route, r).params]
             IN  Call(route.handler, r2, files, ioOK)
                    @@ [handler |-> route.handler, req |-> r2]
        ELSE IF grp # {}
        THEN Call(grouped[First(grp)].handler, r, files, ioOK)
                @@ [handler |-> grouped[First(grp)].handler, req |-> r]
        ELSE [resp |-> NotFoundResponse, fs |-> files, handler |-> "", req |-> r]

-----------------------------------------------------------------------------
\* SendResponse and the chunked writer.

HexDigits == B("0123456789abcdef")

\* fmt's %x of a positive length
RECURSIVE Hex(_)
Hex(n) ==
    IF n < 16 THEN <<HexDigits[n + 1]>>
    ELSE Hex(n \div 16) \o <<HexDigits[(n % 16) + 1]>>

\* ChunkedWriter.Write: nothing for an empty slice
ChunkWrite(p) == IF p = <<>> THEN <<>> ELSE Hex(Len(p)) \o CRLF \o p \o CRLF

\* ChunkedWriter.Close
ChunkClose == B("0") \o CRLF \o CRLF

RECURSIVE ChunkWrites(_)
ChunkWrites(chunks) ==
    IF chunks = <<>> THEN <<>>
    ELSE ChunkWrite(Head(chunks)) \o ChunkWrites(Tail(chunks))

\* SendResponse: what reaches the connection (the status line, the header
\* lines in the order the map yields them, hence as a set, and the bytes
\* after the blank line) and the error returned. connOK says whether the
\* writes to the peer succeed.
SendResponse(res, connOK) ==
    IF ~res.Stream.nil /\ res.Headers.nil
    THEN [err |-> "panic: assignment to entry in nil map", frame |-> <<>>]
    ELSE
      LET h == IF res.Stream.nil THEN res.Headers.m
               ELSE MapSet(res.Headers.m, "Transfer-Encoding", B("chunked"))
          body == IF res.Stream.nil THEN res.Body
                  ELSE ChunkWrites(res.Stream.chunks)
                       \o (IF res.Stream.fails THEN <<>> ELSE ChunkClose)
      IN [err |-> IF ~res.Stream.nil /\ res.Stream.fails THEN "stream error"
                  ELSE IF ~connOK THEN "write failed" ELSE "",
          frame |-> [line |-> StatusLine(res.Version, res.Status, res.Reason),
                     headers |-> {HeaderLine(k, h[k]) : k \in DOMAIN h},
                     body |-> body]]

-----------------------------------------------------------------------------
\* The connection worker, handleConnection, and its client.

MaxRequests == 2

\* size of the buffer of the bufio.Reader that ParseRequest creates
BufSize == 4096

Hdr(n, v) == [name |-> B(n), value |-> B(v)]

ClientReq(method, path, hdrs, payload) ==
    [method |-> B(method), path |-> B(path), version |-> HTTPVersion,
     hdrs |-> hdrs, payload |-> B(payload), nl |-> CRLF, end |-> "eof", cut |-> 0]

\* the requests a client can send
ClientReqs ==
    <<ClientReq("GET", "/echo/hello", <<Hdr("Connection", "keep-alive")>>, ""),
      ClientReq("GET", "/echo/hello", <<Hdr("Connection", "close")>>, ""),
      ClientReq("GET", "/", <<>>, ""),
      ClientReq("HEAD", "/files/a", <<Hdr("connection", "Keep-Alive")>>, ""),
      ClientReq("POST", "/files/a",
                <<Hdr("Connection", "keep-alive"), Hdr("Content-Length", "2")>>,
                "hi"),
      ClientReq("POST", "/files/a", <<Hdr("Content-Length", "-1")>>, ""),
      ClientReq("GET", "/user-agent",
                <<Hdr("User-Agent", "foobar/1.2.3"), Hdr("Connection", "Close")>>,
                ""),
      ClientReq("DELETE", "/files/a", <<Hdr("Connection", "upgrade")>>, ""),
      [ClientReq("GET", "/", <<>>, "") EXCEPT !.version = <<>>],
      [ClientReq("GET", "/", <<>>, "") EXCEPT !.cut = 9]>>

\* what the client writes for request i: its text, less the cut bytes at the end
ClientTexts ==
    [i \in 1..Len(ClientReqs) |->
        LET text == Format(ClientReqs[i]) IN
        SubSeq(text, 1, Len(text) - ClientReqs[i].cut)]

ClientText(i) == ClientTexts[i]

NoResp == [Status |-> 0]

NoHist == [sent |-> <<>>, parsed |-> 0, routed |-> 0, attempted |-> <<>>,
           pipelined |-> FALSE, err |-> ""]

Init ==
    /\ pc = "Reading"
    /\ inbuf = <<>>
    /\ peerClosed = FALSE
    /\ req = NoReq
    /\ resp = NoResp
    /\ wire = <<>>
    /\ fs \in {EmptyMap, [k \in {FilePath(B("a"))} |-> B("data")]}
    /\ closeCount = 0
    /\ closeReason = ""
    /\ hist = NoHist
    /\ pin = NoIn
    /\ pout = NoOut

Running == pc \in {"Reading", "Dispatching", "Writing"}

\* the client writes one more request, whether or not the earlier ones have
\* been answered
ClientSend(i) ==
    /\ Running
    /\ ~peerClosed
    /\ Len(hist.sent) < MaxRequests
    /\ inbuf' = inbuf \o ClientText(i)
    /\ hist' = [hist EXCEPT !.sent = Append(@, i),
                            !.pipelined = @ \/ Len(hist.sent) > Len(wire)]
    /\ UNCHANGED <<pc, peerClosed, req, resp, wire, fs, closeCount, closeReason,
                   pin, pout>>

\* the client closes the connection
ClientClose ==
    /\ Running
    /\ ~peerClosed
    /\ peerClosed' = TRUE
    /\ UNCHANGED <<pc, inbuf, req, resp, wire, fs, closeCount, closeReason,
                   hist, pin, pout>>

\* a return that also closes the connection itself where the loop ends on the
\* Connection header, before the deferred Close runs
ReturnClosingTwice(reason) ==
    /\ pc' = "Closed"
    /\ closeCount' = closeCount + (IF reason = "header" THEN 2 ELSE 1)
    /\ closeReason' = reason
    /\ inbuf' = <<>>
    /\ req' = NoReq
    /\ resp' = NoResp

\* a return of handleConnection: the deferred conn.Close() runs
Return(reason) ==
    /\ pc' = "Closed"
    /\ closeCount' = closeCount + 1
    /\ closeReason' = reason
    /\ inbuf' = <<>>
    /\ req' = NoReq
    /\ resp' = NoResp

\* a panic in the worker: the deferred conn.Close() runs, the process dies
Panic ==
    /\ pc' = "Panicked"
    /\ closeCount' = closeCount + 1
    /\ closeReason' = "panic"
    /\ inbuf' = <<>>
    /\ req' = NoReq
    /\ resp' = NoResp

IsPanic(err) == err # "" /\ HasPrefix(B(err), B("panic"))

\* a reply on every failed parse
FailureReplyBadRequest(err) ==
    <<SendResponse(BadRequestResponse, TRUE).frame @@ [n |-> 0]>>

\* what handleConnection writes when ParseRequest failed with err (lines
\* 110-117): nothing
FailureReply(err) == <<>>

\* the rest of the loop body once ParseRequest has returned res (lines 109-118)
AfterParse(res) ==
    IF res.err = ""
    THEN /\ pc' = "Dispatching"
         /\ req' = res.req
         /\ inbuf' = SubSeq(inbuf,
                            (IF Len(inbuf) < BufSize \/ res.used > BufSize
                             THEN Len(inbuf) ELSE res.used) + 1, Len(inbuf))
         /\ hist' = [hist EXCEPT !.parsed = @ + 1, !.err = ""]
         /\ UNCHANGED <<resp, wire, closeCount, closeReason>>
    ELSE IF IsPanic(res.err)
    THEN /\ Panic
         /\ hist' = [hist EXCEPT !.err = res.err]
         /\ UNCHANGED wire
    ELSE /\ Return(IF ErrorsIsEOF(res.err) THEN "eof" ELSE "parse")
         /\ wire' = wire \o FailureReply(res.err)
         /\ hist' = [hist EXCEPT !.err = res.err]

\* ParseRequest returns on the bytes received, or on the end of the stream
Parse ==
    /\ pc = "Reading"
    /\ ParseRequest(inbuf, "open").err # "block" \/ peerClosed
    /\ AfterParse(ParseRequest(inbuf, IF peerClosed THEN "eof" ELSE "open"))
    /\ UNCHANGED <<peerClosed, fs, pin, pout>>

\* the read deadline passes while ParseRequest waits for bytes
ReadTimeout ==
    /\ pc = "Reading"
    /\ ParseRequest(inbuf, "open").err = "block"
    /\ ~peerClosed
    /\ AfterParse(ParseRequest(inbuf, "timeout"))
    /\ UNCHANGED <<peerClosed, fs, pin, pout>>

\* a Connection header that echoes keep-alive only when it is spelled in
\* lower case
OutgoingConnectionExactCase(r) ==
    IF MapGet(r.Headers, B("connection")) = B("keep-alive")
    THEN B("keep-alive") ELSE B("close")

\* the Connection header of the response (lines 122-127)
OutgoingConnection(r) ==
    IF ToLower(MapGet(r.Headers, B("connection"))) = B("keep-alive")
    THEN B("keep-alive") ELSE B("close")

\* a loop that ends after every response
ClosesAfterSendAlways(r) == TRUE

\* whether the loop ends after the response is sent (lines 136-139)
ClosesAfterSend(r) == ToLower(MapGet(r.Headers, B("connection"))) = B("close")

\* router.Route(req) and the Connection header (lines 120-127)
Dispatch ==
    /\ pc = "Dispatching"
    /\ \E ioOK \in BOOLEAN :
        LET out == Route(ServerRouter, req, fs, ioOK) IN
        /\ fs' = out.fs
        /\ hist' = [hist EXCEPT !.routed = @ + 1]
        /\ IF out.resp.Headers.nil
           THEN Panic /\ UNCHANGED wire
           ELSE /\ resp' = [out.resp EXCEPT !.Headers.m =
                               MapSet(@, "Connection", OutgoingConnection(req))]
                /\ pc' = "Writing"
                /\ UNCHANGED <<inbuf, req, wire, closeCount, closeReason>>
    /\ UNCHANGED <<peerClosed, pin, pout>>

\* a worker that writes every response twice
SendTwice ==
    /\ pc = "Writing"
    /\ \E connOK \in BOOLEAN :
        LET sent == SendResponse(resp, connOK) IN
        /\ hist' = [hist EXCEPT !.attempted = Append(@, resp.Status)]
        /\ IF IsPanic(sent.err) THEN Panic /\ UNCHANGED wire
           ELSE IF sent.err # "" THEN Return("send") /\ UNCHANGED wire
           ELSE /\ wire' = wire \o <<sent.frame @@ [n |-> hist.parsed],
                                     sent.frame @@ [n |-> hist.parsed]>>
                /\ IF ClosesAfterSend(req) THEN Return("header")
                   ELSE /\ pc' = "Reading"
                        /\ req' = NoReq
                        /\ resp' = NoResp
                        /\ UNCHANGED <<inbuf, closeCount, closeReason>>
    /\ UNCHANGED <<peerClosed, fs, pin, pout>>

\* SendResponse(conn, resp) and the end of the loop body (lines 129-139)
Send ==
    /\ pc = "Writing"
    /\ \E connOK \in BOOLEAN :
        LET sent == SendResponse(resp, connOK) IN
        /\ hist' = [hist EXCEPT !.attempted = Append(@, resp.Status)]
        /\ IF IsPanic(sent.err) THEN Panic /\ UNCHANGED wire
           ELSE IF sent.err # "" THEN Return("send") /\ UNCHANGED wire
           ELSE /\ wire' = Append(wire, sent.frame @@ [n |-> hist.parsed])
                /\ IF ClosesAfterSend(req) THEN Return("header")
                   ELSE /\ pc' = "Reading"
                        /\ req' = NoReq
                        /\ resp' = NoResp
                        /\ UNCHANGED <<inbuf, closeCount, closeReason>>
    /\ UNCHANGED <<peerClosed, fs, pin, pout>>

Next ==
    \/ \E i \in 1..Len(ClientReqs) : ClientSend(i)
    \/ ClientClose
    \/ Parse
    \/ ReadTimeout
    \/ Dispatch
    \/ Send

Spec == Init /\ [][Next]_vars

-----------------------------------------------------------------------------
\* Claims about the connection worker, under Spec.

LastFrame == wire[Len(wire)]

\* C1: after a response that carried Connection: close the worker closes the
\* connection and parses no further request; it goes on reading only after a
\* response that carried Connection: keep-alive.
LoopsOnlyAfterKeepAlive ==
    (Running /\ wire # <<>>) =>
        HeaderLine("Connection", B("keep-alive")) \in LastFrame.headers

\* the connection header a client request declares, in lower case
ConnOf(r) ==
    IF Named(r, B("connection")) = {} THEN <<>>
    ELSE ToLower(Declared(r, B("connection")))

\* a complete, well-formed request
Complete(r) == r.cut = 0 /\ r.version # <<>> /\ WellFormed(r)

SentReq(j) == ClientReqs[hist.sent[j]]

\* every request sent so far is a well-formed keep-alive request
AllKeepAlive ==
    \A j \in 1..Len(hist.sent) :
        Complete(SentReq(j)) /\ ConnOf(SentReq(j)) = B("keep-alive")

\* the client has sent k keep-alive requests and then one close request
KeepAliveScript ==
    /\ hist.sent # <<>>
    /\ \A j \in 1..(Len(hist.sent) - 1) :
          Complete(SentReq(j)) /\ ConnOf(SentReq(j)) = B("keep-alive")
    /\ Complete(SentReq(Len(hist.sent)))
    /\ ConnOf(SentReq(Len(hist.sent))) = B("close")

\* the client sent each request after the response to the one before it
Sequential == ~hist.pipelined

\* the worker found no more request to read: the peer closed, or was silent
\* until the read deadline
ReadEnded ==
    /\ closeReason \in {"eof", "parse"}
    /\ hist.err \in {"EOF", "failed to read request lines: i/o timeout"}

\* C2: when a client sends k keep-alive requests and then a close request, one
\* after the other, the worker writes k+1 responses in request order, keeps
\* the connection open until the last of them is written, and then closes it
\* (unless a write to the peer fails).
KeepAliveThenClose ==
    /\ \A i \in 1..Len(wire) : wire[i].n = i
    /\ (Sequential /\ AllKeepAlive /\ pc # "Reading" /\ pc # "Dispatching"
            /\ pc # "Writing") =>
          /\ pc = "Closed"
          /\ closeReason = "send" \/ (ReadEnded /\ Len(wire) = Len(hist.sent))
    /\ (Sequential /\ KeepAliveScript /\ ~Running /\ closeReason # "send") =>
          /\ pc = "Closed"
          /\ closeReason = "header"
          /\ Len(wire) = Len(hist.sent)
    /\ (Sequential /\ KeepAliveScript /\ Len(wire) = Len(hist.sent)) =>
          pc = "Closed"

\* a keep-alive request and then a close request were answered, and the
\* connection was closed after the second response
KeepAliveThenCloseWitness ==
    /\ Sequential
    /\ KeepAliveScript
    /\ Len(hist.sent) = 2
    /\ Len(wire) = 2
    /\ pc = "Closed"
    /\ closeReason = "header"

\* the parse failures that are not the end of the stream or a transport error
ParseFailures ==
    {"malformed request line", "request line too long", "header line too long",
     "invalid Content-Length", "request body too large",
     "failed to read body: unexpected EOF"}

\* C3: when ParseRequest fails with a failure other than EndOfStream, the
\* worker writes the 400 Bad Request response before it closes the connection.
BadRequestOnParseFailure ==
    (pc = "Closed" /\ hist.err \in ParseFailures) =>
        /\ wire # <<>>
        /\ LastFrame.line = StatusLine(HTTPVersion, 400, B("Bad Request"))

\* C4: no input makes the worker panic.
NeverPanics == pc # "Panicked"

\* C5: every response written without chunking carries exactly one
\* Content-Length header, and its value is the number of body bytes written.
ContentLengthOnWire ==
    \A i \in 1..Len(wire) :
        HeaderLine("Transfer-Encoding", B("chunked")) \notin wire[i].headers =>
            {l \in wire[i].headers : HasPrefix(l, B("Content-Length: "))}
                = {HeaderLine("Content-Length", Itoa(Len(wire[i].body)))}

\* C7: when the peer has closed and no byte of a request is unread, the parse
\* ends with EOF and the worker closes the connection, writes nothing and does
\* not call the router.
EndOfStreamClosesSilently ==
    [][(pc = "Reading" /\ inbuf = <<>> /\ peerClosed /\ pc' # pc) =>
          /\ pc' = "Closed"
          /\ closeReason' = "eof"
          /\ hist'.err = "EOF"
          /\ wire' = wire
          /\ hist'.routed = hist.routed
          /\ hist'.attempted = hist.attempted]_vars

\* the worker ended on the end of the stream, the peer having sent nothing
EndOfStreamWitness ==
    /\ pc = "Closed"
    /\ closeReason = "eof"
    /\ hist.err = "EOF"
    /\ hist.sent = <<>>
    /\ peerClosed
    /\ wire = <<>>

\* C8: the worker closes its connection exactly once, whichever return ends
\* it, and not before it ends.
ClosedExactlyOnce ==
    /\ Running => closeCount = 0
    /\ ~Running => closeCount = 1
    /\ pc = "Closed" => closeReason \in {"eof", "parse", "send", "header"}

\* the worker ended on a failed send
ClosedExactlyOnceWitness ==
    /\ pc = "Closed"
    /\ closeReason = "send"
    /\ closeCount = 1

-----------------------------------------------------------------------------
\* The router under registration: a program builds a Router with Handle,
\* HandlePrefix, HandleRegex, Group and RouteGroup.Handle and then serves
\* requests with Route. pin holds the router and the order of the
\* registration calls, pout the last call of Route.

MaxRoutes == 3

\* the handler the k-th registration call passes: a different one each time,
\* so that the response tells which route served the request
HandlerNames ==
    <<"handleRoot", "handleEcho", "handleUserAgent", "handleFiles",
      "handleUserByID">>

HandlerOf(k) == HandlerNames[((k - 1) % Len(HandlerNames)) + 1]

HandlePatterns == {"/", "/u/:id"}
PrefixPatterns == {"/", "/files/"}
RouteMethods == {"GET", "post"}
GroupPrefixes == {"/files"}
GroupPaths == {"/a", "/:id"}

RoutePaths == {"/", "/files/a", "/u/7", "/u/7/x", "/nowhere"}
RequestMethods == {"GET", "Post", "PUT"}

\* regexp.Compile of `^/u/[0-9]+$`, over the paths of RoutePaths
UserRegex == [nil |-> FALSE, accepts |-> {B("/u/7")}]

\* a pattern without metacharacters compiles to a search for its text
RegexPatterns == {"^/u/[0-9]+$", "/u/:id"}

\* regexp.Compile of a pattern of RegexPatterns, over the paths of RoutePaths
Compile(pattern) ==
    IF pattern = "^/u/[0-9]+$" THEN UserRegex
    ELSE [nil |-> FALSE,
          accepts |-> {B(p) : p \in {q \in RoutePaths :
                                        Index(B(q), B(pattern)) # 0}}]

RouteRequests ==
    {[NoReq EXCEPT !.Method = B(m), !.Path = B(p)] :
        m \in RequestMethods, p \in RoutePaths}

\* NewRouter
NewRouter == [routes |-> <<>>, groups |-> <<>>]

NoDispatch == [err |-> "none"]

InitRoute ==
    /\ IdleConn
    /\ pin = [router |-> NewRouter, log |-> <<>>]
    /\ pout = NoDispatch

Registering == pout = NoDispatch /\ Len(pin.log) < MaxRoutes

\* one more registration call: the router after it, and the call in the log
Registered(router, call, method, group, index) ==
    /\ pin' = [router |-> router,
               log |-> Append(pin.log,
                              [call |-> call, method |-> method,
                               group |-> group, index |-> index])]
    /\ UNCHANGED <<connVars, pout>>

\* r.Handle(path, method, handler)
Handle(path, method) ==
    /\ Registering
    /\ Registered([pin.router EXCEPT !.routes =
                      Append(@, ExactRoute(path, method,
                                           HandlerOf(Len(pin.log) + 1)))],
                  "Handle", method, 0, Len(pin.router.routes) + 1)

\* r.HandlePrefix(prefix, method, handler)
HandlePrefix(prefix, method) ==
    /\ Registering
    /\ Registered([pin.router EXCEPT !.routes =
                      Append(@, PrefixRoute(prefix, method,
                                            HandlerOf(Len(pin.log) + 1)))],
                  "HandlePrefix", method, 0, Len(pin.router.routes) + 1)

\* r.HandleRegex(pattern, handler), the pattern compiling
HandleRegex(pattern) ==
    /\ Registering
    /\ Registered([pin.router EXCEPT !.routes =
                      Append(@, [pattern |-> B(pattern), method |-> <<>>,
                                 handler |-> HandlerOf(Len(pin.log) + 1),
                                 isPrefix |-> FALSE,
                                 regex |-> Compile(pattern)])],
                  "HandleRegex", "", 0, Len(pin.router.routes) + 1)

\* r.Group(prefix)
Group(prefix) ==
    /\ Registering
    /\ Registered([pin.router EXCEPT !.groups =
                      Append(@, [prefix |-> B(prefix), routes |-> <<>>])],
                  "Group", "", Len(pin.router.groups) + 1, 0)

\* g.Handle(path, handler) on the g-th group of the router
GroupHandle(g, path) ==
    /\ Registering
    /\ g \in 1..Len(pin.router.groups)
    /\ Registered([pin.router EXCEPT !.groups[g].routes =
                      Append(@, [pattern |-> pin.router.groups[g].prefix
                                               \o B(path),
                                 method |-> <<>>,
                                 handler |-> HandlerOf(Len(pin.log) + 1),
                                 isPrefix |-> FALSE, regex |-> NoRegex])],
                  "RouteGroup.Handle", "", g,
                  Len(pin.router.groups[g].routes) + 1)

\* router.Route(req); Route leaves the router as it is, so one call a run
\* shows every call
RouteRequest(r) ==
    /\ pout = NoDispatch
    /\ \E ioOK \in BOOLEAN :
          pout' = [err |-> "", in |-> r, out |-> Route(pin.router, r, fs, ioOK)]
    /\ UNCHANGED <<connVars, pin>>

NextRoute ==
    \/ \E path \in HandlePatterns, method \in RouteMethods : Handle(path, method)
    \/ \E prefix \in PrefixPatterns, method \in RouteMethods :
          HandlePrefix(prefix, method)
    \/ \E pattern \in RegexPatterns : HandleRegex(pattern)
    \/ \E prefix \in GroupPrefixes : Group(prefix)
    \/ \E g \in 1..MaxRoutes, path \in GroupPaths : GroupHandle(g, path)
    \/ \E r \in RouteRequests : RouteRequest(r)

SpecRoute == InitRoute /\ [][NextRoute]_vars

-----------------------------------------------------------------------------
\* Claims about the router, under SpecRoute.

Dispatched == pout # NoDispatch

\* the registration calls that added a route, by their place in the log
RouteCalls == {k \in DOMAIN pin.log : pin.log[k].call # "Group"}

RouteAt(k) ==
    IF pin.log[k].group = 0 THEN pin.router.routes[pin.log[k].index]
    ELSE pin.router.groups[pin.log[k].group].routes[pin.log[k].index]

\* the pattern of the route of call k matches the path of r, as Route tests
\* that one route
PatternMatches(k, r) ==
    IF pin.log[k].group = 0 THEN TopLevelMatch(RouteAt(k), r).hit
    ELSE RouteAt(k).pattern = r.Path

RouteMatches(k, r) == MethodAllows(RouteAt(k), r) /\ PatternMatches(k, r)

\* the registration calls whose handler served the request
ServedBy == {k \in RouteCalls : RouteAt(k).handler = pout.out.handler}

\* C11: the handler Route invokes is that of the earliest registration call,
\* of any kind, whose method restriction and pattern match the request.
FirstRegisteredMatchWins ==
    Dispatched =>
        LET m == {k \in RouteCalls : RouteMatches(k, pout.in)} IN
        m # {} =>
            pout.out.handler =
                RouteAt(CHOOSE k \in m : \A j \in m : k <= j).handler

\* the methods registered for the routes whose pattern matches the path of r
AllowedMethods(r) ==
    {RouteAt(k).method : k \in {j \in RouteCalls : PatternMatches(j, r)}}

\* C12: a path that some route matches, requested with a method none of
\* those routes is registered for, gets 405 Method Not Allowed with an Allow
\* header naming every method registered for the path.
MethodNotAllowedWithAllow ==
    (/\ Dispatched
     /\ \E k \in RouteCalls : PatternMatches(k, pout.in)
     /\ \A k \in RouteCalls : ~RouteMatches(k, pout.in))
    => /\ pout.out.resp.Status = 405
       /\ HasKey(pout.out.resp.Headers.m, "Allow")
       /\ \A m \in AllowedMethods(pout.in) :
             Index(pout.out.resp.Headers.m["Allow"], m) # 0

IsParamRoute(route) == route.regex.nil /\ IndexByte(route.pattern, ":") # 0
IsExactRoute(route) ==
    route.regex.nil /\ IndexByte(route.pattern, ":") = 0 /\ ~route.isPrefix
IsPrefixRoute(route) ==
    route.regex.nil /\ IndexByte(route.pattern, ":") = 0 /\ route.isPrefix

\* the calls that registered a top-level route
TopCalls == {k \in RouteCalls : pin.log[k].group = 0}

\* the router holds an exact route for "/" and a prefix route for "/files/"
\* with the same method, and nothing else
RootAndFiles(kExact, kPrefix) ==
    /\ RouteCalls = {kExact, kPrefix}
    /\ TopCalls = {kExact, kPrefix}
    /\ IsExactRoute(RouteAt(kExact)) /\ RouteAt(kExact).pattern = B("/")
    /\ IsPrefixRoute(RouteAt(kPrefix)) /\ RouteAt(kPrefix).pattern = B("/files/")
    /\ RouteAt(kExact).method = RouteAt(kPrefix).method

\* C14: an exact route serves a request only when its pattern equals the
\* path; a prefix route whose method allows the request and whose pattern
\* starts the path has the request served by itself or by a route
\* registered before it; and with an exact "/" and a prefix "/files/" for
\* one method, in either order, /files/<name> is served by the prefix route.
ExactAndPrefixKinds ==
    Dispatched =>
        /\ \A k \in ServedBy \cap TopCalls :
              IsExactRoute(RouteAt(k)) => RouteAt(k).pattern = pout.in.Path
        /\ \A k \in TopCalls :
              (/\ IsPrefixRoute(RouteAt(k))
               /\ MethodAllows(RouteAt(k), pout.in)
               /\ HasPrefix(pout.in.Path, RouteAt(k).pattern))
              => \E j \in ServedBy \cap TopCalls : j <= k
        /\ \A kExact, kPrefix \in TopCalls :
              (/\ RootAndFiles(kExact, kPrefix)
               /\ MethodAllows(RouteAt(kPrefix), pout.in)
               /\ HasPrefix(pout.in.Path, B("/files/")))
              => pout.out.handler = RouteAt(kPrefix).handler

\* "/" registered first, "/files/" second, and /files/a served by the second
ExactAndPrefixKindsWitness ==
    /\ Dispatched
    /\ RouteCalls = {1, 2}
    /\ RootAndFiles(1, 2)
    /\ pout.in.Path = B("/files/a")
    /\ pout.out.handler = HandlerOf(2)

\* the positions that bound the '/'-separated segments of s
Cuts(s) == {0, Len(s) + 1} \cup {i \in 1..Len(s) : s[i] = "/"}

SegmentCount(s) == Cardinality(Cuts(s)) - 1

\* the n-th '/'-separated segment of s
Segment(s, n) ==
    LET from == CHOOSE c \in Cuts(s) :
                    Cardinality({x \in Cuts(s) : x < c}) = n - 1
        to == CHOOSE c \in Cuts(s) : Cardinality({x \in Cuts(s) : x < c}) = n
    IN  SubSeq(s, from + 1, to - 1)

IsBinding(seg) == seg # <<>> /\ seg[1] = ":"

SegmentsMatch(pattern, path) ==
    /\ SegmentCount(pattern) = SegmentCount(path)
    /\ \A n \in 1..SegmentCount(pattern) :
          ~IsBinding(Segment(pattern, n))
              => Segment(pattern, n) = Segment(path, n)

\* C15: a parameterized route matches a path exactly when both have as many
\* segments and the pattern's segments without ':' equal the path's; the
\* request it serves carries Params binding each ':name' to its segment, and
\* a request served by a route of another kind or by none has Params unset.
ParamsBinding ==
    /\ \A k \in TopCalls : IsParamRoute(RouteAt(k)) =>
          \A r \in RouteRequests :
              PatternMatches(k, r) <=> SegmentsMatch(RouteAt(k).pattern, r.Path)
    /\ Dispatched =>
          IF \E k \in ServedBy \cap TopCalls : IsParamRoute(RouteAt(k))
          THEN LET pattern == RouteAt(CHOOSE k \in ServedBy \cap TopCalls :
                                          TRUE).pattern
                   bound == {n \in 1..SegmentCount(pattern) :
                                IsBinding(Segment(pattern, n))}
               IN  /\ pout.out.req.Params.set
                   /\ DOMAIN pout.out.req.Params.m =
                          {Tail(Segment(pattern, n)) : n \in bound}
                   /\ \A n \in bound :
                          pout.out.req.Params.m[Tail(Segment(pattern, n))]
                              = Segment(pout.in.Path, n)
          ELSE pout.out.req.Params = NoParams

\* /u/7 served by the route /u/:id with id bound to 7
ParamsBindingWitness ==
    /\ Dispatched
    /\ pout.in.Path = B("/u/7")
    /\ \E k \in ServedBy \cap TopCalls : RouteAt(k).pattern = B("/u/:id")
    /\ pout.out.req.Params.set
    /\ pout.out.req.Params.m[B("id")] = B("7")

-----------------------------------------------------------------------------
\* SendResponse step by step, inside the connection worker: the bufio.Writer
\* it wraps the connection in, the chunked writer it hands to the producer of
\* a streamed response, and the worker's reaction to its result (lines
\* 129-139 of handleConnection). Here wire is the byte sequence that has
\* reached the peer, pout is the bufio.Writer, peerClosed says that writes to
\* the connection fail from now on, and the producer is the environment: it
\* writes up to MaxWrites slices to the chunked writer and returns nil or an
\* error.

MaxWrites == 3

\* the size of the buffer of bufio.NewWriter
WriterSize == 4096

\* a Flush that reports a failed write without keeping the error
FlushForgetsError(w) ==
    IF w.err # "" \/ w.buf = <<>> THEN w
    ELSE IF w.up THEN [w EXCEPT !.out = @ \o w.buf, !.buf = <<>>]
    ELSE [w EXCEPT !.failed = TRUE]

\* bufio.Writer.Flush; w.err is the error the writer keeps once a write to
\* the connection has failed, w.out the bytes the connection has taken, and
\* w.failed records that a write to the connection has failed
Flush(w) ==
    IF w.err # "" \/ w.buf = <<>> THEN w
    ELSE IF w.up THEN [w EXCEPT !.out = @ \o w.buf, !.buf = <<>>]
    ELSE [w EXCEPT !.err = "write failed", !.failed = TRUE]

\* bufio.Writer.Write (and WriteString, and fmt.Fprintf onto the writer)
RECURSIVE Write(_, _)
Write(w, p) ==
    IF Len(p) > WriterSize - Len(w.buf) /\ w.err = ""
    THEN IF w.buf = <<>>
         THEN IF w.up THEN [w EXCEPT !.out = @ \o p]
              ELSE [w EXCEPT !.err = "write failed", !.failed = TRUE]
         ELSE LET n == WriterSize - Len(w.buf) IN
              Write(Flush([w EXCEPT !.buf = @ \o SubSeq(p, 1, n)]),
                    SubSeq(p, n + 1, Len(p)))
    ELSE IF w.err # "" THEN w
    ELSE [w EXCEPT !.buf = @ \o p]

\* a chunked writer that writes a chunk for an empty slice too
ChunkedWriterWriteEmptyChunk(w, p) ==
    [w |-> Write(Write(Write(w, Hex(Len(p)) \o CRLF), p), CRLF),
     n |-> Len(p), err |-> ""]

\* ChunkedWriter.Write: the three writes, whose results it drops
ChunkedWriterWrite(w, p) ==
    IF p = <<>> THEN [w |-> w, n |-> 0, err |-> ""]
    ELSE [w |-> Write(Write(Write(w, Hex(Len(p)) \o CRLF), p), CRLF),
          n |-> Len(p), err |-> ""]

\* ChunkedWriter.Close
ChunkedWriterClose(w) == Write(w, ChunkClose)

\* n bytes of payload
Filler(n) == [i \in 1..n |-> "x"]

\* the slices a producer writes
StreamChunks == {<<>>, B("hello"), Filler(1024), Filler(2048)}

\* handleStream: a streamed 200 response
handleStream(r) ==
    [Version |-> HTTPVersion, Status |-> 200, Reason |-> B("OK"),
     Headers |-> GoMap(ContentType("text/plain")), Body |-> <<>>,
     Stream |-> [nil |-> FALSE, chunks |-> <<>>, fails |-> FALSE]]

\* the requests whose responses are sent, and the handler of each
SendRequest(m, p, c) ==
    [NoReq EXCEPT !.Method = B(m), !.Path = B(p), !.Version = HTTPVersion,
                  !.Headers = [k \in {B("connection")} |-> B(c)]]

SendRequests ==
    {SendRequest(t[1], t[2], c) :
        t \in {<<"GET", "/echo/hello">>, <<"HEAD", "/echo/hello">>,
                <<"GET", "/stream">>},
        c \in {"keep-alive", "close"}}

Respond(r) == IF r.Path = B("/stream") THEN handleStream(r) ELSE handleEcho(r)

NewWriter ==
    [buf |-> <<>>, err |-> "", out |-> <<>>, up |-> TRUE, failed |-> FALSE]

NoSendHist ==
    [head |-> <<>>, calls |-> <<>>, closes |-> 0, produced |-> "none",
     ret |-> "none", stream |-> FALSE, keepAlive |-> FALSE, sends |-> 0]

\* the worker has routed a request and is about to call SendResponse
InitSend ==
    /\ pc = "Writing"
    /\ inbuf = <<>>
    /\ peerClosed = FALSE
    /\ req \in SendRequests
    /\ resp = [Respond(req) EXCEPT !.Headers.m =
                  MapSet(@, "Connection", OutgoingConnection(req))]
    /\ wire = <<>>
    /\ fs = EmptyMap
    /\ closeCount = 0
    /\ closeReason = ""
    /\ hist = [NoSendHist EXCEPT
                  !.stream = ~resp.Stream.nil,
                  !.keepAlive = (OutgoingConnection(req) = B("keep-alive"))]
    /\ pin = NoIn
    /\ pout = NewWriter

Sending == pc \in {"Writing", "Body", "Producing"}

\* the writer as the connection is now
Conn(w) == [w EXCEPT !.up = ~peerClosed, !.out = <<>>]

\* writes to the peer start to fail
ConnBreak ==
    /\ Sending
    /\ ~peerClosed
    /\ peerClosed' = TRUE
    /\ UNCHANGED <<pc, inbuf, req, resp, wire, fs, closeCount, closeReason,
                   hist, pin, pout>>

\* the head written without the flush that follows it
SendHeadUnflushed(order) ==
    LET h == IF resp.Stream.nil THEN resp.Headers.m
             ELSE MapSet(resp.Headers.m, "Transfer-Encoding", B("chunked"))
    IN  Write(Write(Write(Conn(pout),
                          StatusLine(resp.Version, resp.Status, resp.Reason)),
                    HeaderBlock(h, order)),
              CRLF)

\* SendResponse up to the flush of the head (lines 127-139): the status line,
\* the headers as the map yields them, the blank line
SendHead(order) ==
    LET h == IF resp.Stream.nil THEN resp.Headers.m
             ELSE MapSet(resp.Headers.m, "Transfer-Encoding", B("chunked"))
    IN  Flush(Write(Write(Write(Conn(pout),
                                StatusLine(resp.Version, resp.Status,
                                           resp.Reason)),
                          HeaderBlock(h, order)),
                    CRLF))

\* lines 127-141: the head, then the producer is invoked or the body is next
SendStart ==
    /\ pc = "Writing"
    /\ \E order \in Orders(DOMAIN resp.Headers.m
                           \cup (IF resp.Stream.nil THEN {}
                                 ELSE {"Transfer-Encoding"})) :
        LET h == IF resp.Stream.nil THEN resp.Headers.m
                 ELSE MapSet(resp.Headers.m, "Transfer-Encoding", B("chunked"))
            w == SendHead(order)
        IN  /\ pout' = w
            /\ wire' = wire \o w.out
            /\ hist' = [hist EXCEPT
                           !.head = StatusLine(resp.Version, resp.Status,
                                               resp.Reason)
                                    \o HeaderBlock(h, order) \o CRLF,
                           !.sends = @ + 1]
    /\ pc' = IF resp.Stream.nil THEN "Body" ELSE "Producing"
    /\ UNCHANGED <<inbuf, peerClosed, req, resp, fs, closeCount, closeReason,
                   pin>>

\* lines 151-157: the fixed body and the last flush
SendBody ==
    /\ pc = "Body"
    /\ LET w1 == IF Len(resp.Body) > 0 THEN Write(Conn(pout), resp.Body)
                 ELSE Conn(pout)
           w == IF Len(resp.Body) > 0 /\ w1.err # "" THEN w1 ELSE Flush(w1)
       IN  /\ pout' = w
           /\ wire' = wire \o w.out
           /\ hist' = [hist EXCEPT !.ret = w.err]
    /\ pc' = "Sent"
    /\ UNCHANGED <<inbuf, peerClosed, req, resp, fs, closeCount, closeReason,
                   pin>>

\* the producer writes p to the chunked writer
ProducerWrite(p) ==
    /\ pc = "Producing"
    /\ Len(hist.calls) < MaxWrites
    /\ LET res == ChunkedWriterWrite(Conn(pout), p) IN
       /\ pout' = res.w
       /\ wire' = wire \o res.w.out
       /\ hist' = [hist EXCEPT
                      !.calls = Append(@, [p |-> p, n |-> res.n,
                                           err |-> res.err,
                                           failed |-> res.w.failed])]
    /\ UNCHANGED <<pc, inbuf, peerClosed, req, resp, fs, closeCount,
                   closeReason, pin>>

\* what SendResponse does once the producer has returned err (lines
\* 143-148): the error goes to the caller as it is, success closes the
\* chunked writer and flushes
AfterProducer(w, err) ==
    IF err # "" THEN [w |-> w, ret |-> err, closes |-> 0]
    ELSE LET w2 == Flush(ChunkedWriterClose(w)) IN
         [w |-> w2, ret |-> w2.err, closes |-> 1]

\* the producer returns
ProducerReturn(err) ==
    /\ pc = "Producing"
    /\ LET res == AfterProducer(Conn(pout), err) IN
       /\ pout' = res.w
       /\ wire' = wire \o res.w.out
       /\ hist' = [hist EXCEPT !.ret = res.ret,
                               !.closes = @ + res.closes,
                               !.produced = err]
    /\ pc' = "Sent"
    /\ UNCHANGED <<inbuf, peerClosed, req, resp, fs, closeCount, closeReason,
                   pin>>

\* a test that lets a failed send pass when the request asked to keep the
\* connection
SendFailedOnlyOnClose(ret) == ret # "" /\ ClosesAfterSend(req)

\* line 129: the test of the error SendResponse returned
SendFailed(ret) == ret # ""

\* lines 129-139 of handleConnection
AfterSend ==
    /\ pc = "Sent"
    /\ IF SendFailed(hist.ret) THEN Return("send")
       ELSE IF ClosesAfterSend(req) THEN Return("header")
       ELSE /\ pc' = "Reading"
            /\ req' = NoReq
            /\ resp' = NoResp
            /\ UNCHANGED <<inbuf, closeCount, closeReason>>
    /\ UNCHANGED <<peerClosed, wire, fs, hist, pin, pout>>

NextSend ==
    \/ ConnBreak
    \/ SendStart
    \/ SendBody
    \/ \E p \in StreamChunks : ProducerWrite(p)
    \/ \E err \in {"", "producer failed"} : ProducerReturn(err)
    \/ AfterSend

SpecSend == InitSend /\ [][NextSend]_vars

-----------------------------------------------------------------------------
\* Claims about SendResponse and the chunked writer, under SpecSend.

\* the number of hexadecimal digits of n > 0
HexWidth(n) == CHOOSE d \in 1..8 : 16 ^ (d - 1) <= n /\ n < 16 ^ d

\* n > 0 in lowercase hexadecimal, without padding
LowerHex(n) ==
    [i \in 1..HexWidth(n) |->
        LET v == (n \div (16 ^ (HexWidth(n) - i))) % 16 IN
        SubSeq("0123456789abcdef", v + 1, v + 1)]

\* what the calls must have added to the output, one after the other
RECURSIVE Encoded(_)
Encoded(calls) ==
    IF calls = <<>> THEN <<>>
    ELSE (IF Head(calls).p = <<>> THEN <<>>
          ELSE LowerHex(Len(Head(calls).p)) \o <<"\r", "\n">> \o Head(calls).p
               \o <<"\r", "\n">>)
         \o Encoded(Tail(calls))

Terminal == <<"0", "\r", "\n", "\r", "\n">>

\* every byte SendResponse has handed to its writer that is not lost
Output == wire \o pout.buf

AfterHead == SubSeq(Output, Len(hist.head) + 1, Len(Output))

CallLengths == [i \in DOMAIN hist.calls |-> Len(hist.calls[i].p)]

\* C16: each Write of n > 0 bytes adds hex(n), CRLF, the bytes, CRLF to the
\* output and reports n, a Write of no byte adds nothing; writes of 0, 5 and
\* 1024 bytes and Close give 5 CRLF 5 bytes CRLF 400 CRLF 1024 bytes CRLF
\* 0 CRLF CRLF.
ChunkEncoding ==
    hist.stream =>
        /\ \A i \in DOMAIN hist.calls :
              hist.calls[i].n = Len(hist.calls[i].p) /\ hist.calls[i].err = ""
        /\ ~pout.failed =>
              Output = hist.head \o Encoded(hist.calls)
                       \o (IF hist.closes = 1 THEN Terminal ELSE <<>>)
        /\ (~pout.failed /\ CallLengths = <<0, 5, 1024>> /\ hist.closes = 1) =>
              AfterHead = <<"5", "\r", "\n">> \o hist.calls[2].p
                          \o <<"\r", "\n", "4", "0", "0", "\r", "\n">>
                          \o hist.calls[3].p
                          \o <<"\r", "\n", "0", "\r", "\n", "\r", "\n">>

\* writes of 0, 5 and 1024 bytes and Close, all of it on the wire
ChunkEncodingWitness ==
    /\ hist.stream
    /\ pc = "Sent"
    /\ ~pout.failed
    /\ CallLengths = <<0, 5, 1024>>
    /\ hist.closes = 1
    /\ wire = hist.head \o Encoded(hist.calls) \o Terminal

EndsWith(s, t) == Len(s) >= Len(t) /\ SubSeq(s, Len(s) - Len(t) + 1, Len(s)) = t

\* C17: once the producer of a streamed response has completed, with
\* success or with an error, the terminal chunk has been written once and
\* is the end of the stream.
TerminalChunkOnCompletion ==
    (hist.stream /\ hist.produced # "none" /\ ~pout.failed) =>
        /\ hist.closes = 1
        /\ EndsWith(wire, Terminal)

\* C18: a streamed response gets Transfer-Encoding: chunked; when the
\* producer is invoked the status line, the headers and the blank line have
\* been flushed to the connection; whatever is on the wire starts with the
\* whole of them.
HeadFlushedBeforeProducer ==
    hist.stream =>
        /\ (pc = "Producing") =>
              /\ \E i \in 1..Len(hist.head) :
                    HasPrefix(SubSeq(hist.head, i, Len(hist.head)),
                              B("Transfer-Encoding: chunked") \o CRLF)
              /\ HasPrefix(hist.head,
                           StatusLine(resp.Version, resp.Status, resp.Reason))
              /\ EndsWith(hist.head, CRLF \o CRLF)
              /\ Len(hist.head) =
                    Len(StatusLine(resp.Version, resp.Status, resp.Reason))
                    + Len(B("Transfer-Encoding: chunked") \o CRLF)
                    + Len(B("Content-Type: text/plain") \o CRLF)
                    + Len(B("Connection: ") \o OutgoingConnection(req) \o CRLF)
                    + Len(CRLF)
        /\ (pc = "Producing" /\ hist.calls = <<>>) =>
              /\ pout.buf = <<>> \/ pout.failed
              /\ ~pout.failed => wire = hist.head
        /\ (hist.sends > 0 /\ wire # <<>>) => HasPrefix(wire, hist.head)
        /\ (hist.calls # <<>> \/ hist.produced # "none") => hist.sends = 1

\* the producer is about to run and the head is on the wire
HeadFlushedBeforeProducerWitness ==
    /\ hist.stream
    /\ pc = "Producing"
    /\ hist.calls = <<>>
    /\ wire = hist.head
    /\ wire # <<>>
    /\ pout.buf = <<>>

\* C19: when a write to the peer has failed during SendResponse, it returns
\* an error and the worker closes the connection: it does not loop to parse
\* another request and does not send the response again.
WriteFailureEndsConnection ==
    pout.failed =>
        /\ pc \in {"Body", "Producing", "Sent", "Closed"}
        /\ pc \in {"Sent", "Closed"} => hist.ret \notin {"none", ""}
        /\ pc = "Closed" => closeReason = "send" /\ closeCount = 1
        /\ hist.sends = 1

\* the write of a chunk failed, and the worker closed the connection
WriteFailureEndsConnectionWitness ==
    /\ pc = "Closed"
    /\ closeReason = "send"
    /\ hist.stream
    /\ hist.produced = ""
    /\ \E i \in DOMAIN hist.calls :
          hist.calls[i].failed /\ (i > 1 => ~hist.calls[i - 1].failed)
    /\ hist.calls # <<>> /\ ~hist.calls[1].failed

\* C20: when the producer returns an error, SendResponse returns that error
\* and writes nothing more, no terminal chunk either, and the worker closes
\* the connection without looping, whatever the Connection header asked.
ProducerErrorClosesConnection ==
    hist.produced \notin {"none", ""} =>
        /\ hist.ret = hist.produced
        /\ hist.closes = 0
        /\ ~pout.failed => Output = hist.head \o Encoded(hist.calls)
        /\ pc \in {"Sent", "Closed"}
        /\ pc = "Closed" => closeReason = "send" /\ closeCount = 1

\* a producer failed on a keep-alive connection, which the worker closed
ProducerErrorClosesConnectionWitness ==
    /\ hist.produced = "producer failed"
    /\ hist.keepAlive
    /\ ~pout.failed
    /\ pc = "Closed"
    /\ closeReason = "send"

-----------------------------------------------------------------------------
\* The connection worker and a client that sends lines at and over the
\* limits of ParseRequest.

\* a request whose header line X-Long, trimmed, is n bytes long
LongHeaderReq(n) ==
    [method |-> B("GET"), path |-> B("/"), version |-> HTTPVersion,
     hdrs |-> <<Hdr("Connection", "keep-alive"),
                [name |-> B("X-Long"),
                 value |-> Filler(n - Len(B("X-Long: ")))]>>,
     payload |-> <<>>, nl |-> CRLF, end |-> "eof", cut |-> 0]

\* a request whose request line, trimmed, is n bytes long
LongLineReq(n) ==
    [method |-> B("GET"),
     path |-> B("/") \o Filler(n - Len(B("GET / ") \o HTTPVersion)),
     version |-> HTTPVersion,
     hdrs |-> <<Hdr("Connection", "keep-alive")>>,
     payload |-> <<>>, nl |-> CRLF, end |-> "eof", cut |-> 0]

\* a header line of 8 KB and a byte, one of 8 KB, a request line of 4 KB and
\* a byte, one of 4 KB, and a short request
LongReqs ==
    <<LongHeaderReq(8193),
      LongHeaderReq(8192),
      LongLineReq(4097),
      LongLineReq(4096),
      ClientReq("GET", "/echo/hello", <<Hdr("Connection", "keep-alive")>>, "")>>

LongTexts == [i \in 1..Len(LongReqs) |-> Format(LongReqs[i])]

\* the requests of LongReqs with a line over its limit
Oversized == {1, 3}

\* the place in what the client sent of its first request with an oversized
\* line, 0 when it sent none
FirstOversized ==
    LET at == {k \in 1..Len(hist.sent) : hist.sent[k] \in Oversized} IN
    IF at = {} THEN 0 ELSE CHOOSE k \in at : \A j \in at : k <= j

\* the client writes one more of LongReqs; hist.pipelined says that a request
\* up to the first oversized one was written before the response to the
\* request before it had been sent
ClientSendLong(i) ==
    /\ Running
    /\ ~peerClosed
    /\ Len(hist.sent) < MaxRequests
    /\ inbuf' = inbuf \o LongTexts[i]
    /\ hist' = [hist EXCEPT
                   !.sent = Append(@, i),
                   !.pipelined = @ \/ (FirstOversized = 0
                                       /\ Len(hist.sent) > Len(wire))]
    /\ UNCHANGED <<pc, peerClosed, req, resp, wire, fs, closeCount, closeReason,
                   pin, pout>>

NextOversize ==
    \/ \E i \in 1..Len(LongReqs) : ClientSendLong(i)
    \/ ClientClose
    \/ Parse
    \/ ReadTimeout
    \/ Dispatch
    \/ Send

SpecOversize == Init /\ [][NextOversize]_vars

\* C21: a request with a header line over MaxHeaderLineLength or a request
\* line over MaxRequestLineLength (lengths as ParseRequest measures them,
\* after trimming) is never parsed into a request nor routed, and neither is
\* anything the client sent after it, whenever it sent it: the parse that
\* meets the line fails and the worker closes. The requests before the
\* oversized one are sent one after the other's response.
OversizedLineRejected ==
    (FirstOversized # 0 /\ ~hist.pipelined) =>
        /\ hist.parsed < FirstOversized
        /\ hist.routed < FirstOversized
        /\ Len(wire) < FirstOversized
        /\ hist.err \in {"header line too long", "request line too long"}
              => pc = "Closed" /\ closeReason = "parse" /\ req = NoReq

\* an oversized header line followed by a sound request: the parse failed
\* and the worker closed without parsing either
OversizedLineRejectedWitness ==
    /\ hist.sent = <<1, 5>>
    /\ ~hist.pipelined
    /\ pc = "Closed"
    /\ hist.err = "header line too long"
    /\ hist.parsed = 0
    /\ wire = <<>>

-----------------------------------------------------------------------------
\* Specification SpecFiles: handleFiles called request after request on one
\* file system.  fs maps the absolute path of a file to its content; hist
\* keeps the last call and, per file, what the responses so far say it holds.

MaxFileOps == 3

\* a file of the public directory, and one beside that directory
InitialFiles ==
    [k \in {FilePath(B("a")), B("/srv/secret")} |->
        IF k = B("/srv/secret") THEN B("key") ELSE B("data")]

FileNames == {B("a"), B("new.txt"), B("sub/../a"), B("../secret")}
FileMethods == {B("GET"), B("HEAD"), B("POST"), B("PUT"), B("DELETE")}
FileBodies == {B("hi"), <<>>}

FileRequest(m, name, body) ==
    [NoReq EXCEPT !.Method = m, !.Path = B("/files/") \o name,
                  !.Version = HTTPVersion, !.Body = body]

NoFileHist == [ops |-> 0, stored |-> InitialFiles, before |-> InitialFiles,
               name |-> <<>>, ioOK |-> TRUE]

InitFiles ==
    /\ pc = "Files"
    /\ inbuf = <<>>
    /\ peerClosed = FALSE
    /\ req = NoReq
    /\ resp = NoResp
    /\ wire = <<>>
    /\ fs = InitialFiles
    /\ closeCount = 0
    /\ closeReason = ""
    /\ hist = NoFileHist
    /\ pin = NoIn
    /\ pout = NoOut

\* what the responses say the files hold, after the response res to r
Stored(stored, r, name, res) ==
    IF r.Method \in {B("POST"), B("PUT")} /\ res.Status \in {200, 201}
    THEN MapSet(stored, FilePath(name), r.Body)
    ELSE IF r.Method = B("DELETE") /\ res.Status = 204
    THEN [k \in (DOMAIN stored) \ {FilePath(name)} |-> stored[k]]
    ELSE stored

\* one call of handleFiles, with a body for the methods that carry one
HandleFiles(m, name, body, ioOK) ==
    /\ pc = "Files"
    /\ hist.ops < MaxFileOps
    /\ LET r == FileRequest(m, name, body)
           out == Call("handleFiles", r, fs, ioOK)
       IN  /\ req' = r
           /\ resp' = out.resp
           /\ fs' = out.fs
           /\ hist' = [ops |-> hist.ops + 1,
                       stored |-> Stored(hist.stored, r, name, out.resp),
                       before |-> hist.stored,
                       name |-> name, ioOK |-> ioOK]
    /\ UNCHANGED <<pc, inbuf, peerClosed, wire, closeCount, closeReason,
                   pin, pout>>

NextFiles ==
    \E m \in FileMethods, name \in FileNames, ioOK \in BOOLEAN :
        \E body \in (IF m \in {B("POST"), B("PUT")} THEN FileBodies ELSE {<<>>}) :
            HandleFiles(m, name, body, ioOK)

SpecFiles == InitFiles /\ [][NextFiles]_vars

UnderPublicDir(path) == HasPrefix(path, PublicDir \o <<"/">>)

\* C22: no request makes handleFiles read, write or remove a file outside the
\* public directory: the files outside it stay as they were, no file appears
\* outside it, and no response carries the content of a file outside it.
FilesStayUnderPublicDir ==
    /\ \A k \in (DOMAIN fs) \cup (DOMAIN InitialFiles) :
          ~UnderPublicDir(k) =>
              /\ k \in DOMAIN fs
              /\ k \in DOMAIN InitialFiles
              /\ fs[k] = InitialFiles[k]
    /\ (hist.ops > 0 /\ req.Method = B("GET") /\ resp.Status = 200) =>
          \E k \in DOMAIN fs : UnderPublicDir(k) /\ resp.Body = fs[k]

\* C23: on a file system whose calls succeed, GET of a file that the
\* responses so far say is absent (never written, or deleted) is answered
\* 404 Not Found; POST with body B is answered 201 Created and the file then
\* holds B; GET of a file last written with B, with no write or delete of it
\* since, is answered 200 with body exactly B.
FileStoreSequences ==
    (hist.ops > 0 /\ hist.ioOK) =>
        LET path == FilePath(hist.name) IN
        /\ req.Method = B("GET") =>
              IF HasKey(hist.before, path)
              THEN resp.Status = 200 /\ resp.Body = hist.before[path]
              ELSE resp.Status = 404 /\ resp.Reason = B("Not Found")
        /\ req.Method = B("POST") =>
              /\ resp.Status = 201 /\ resp.Reason = B("Created")
              /\ HasKey(fs, path) /\ fs[path] = req.Body

\* a write of "hi" to the file a, which held "data", then a GET of it that is
\* answered with "hi"
FileStoreSequencesWitness ==
    /\ hist.ops = 2 /\ hist.ioOK
    /\ req.Method = B("GET") /\ hist.name = B("a")
    /\ hist.before[FilePath(B("a"))] = B("hi")
    /\ resp.Status = 200 /\ resp.Body = B("hi")

-----------------------------------------------------------------------------
\* Specification SpecLog: the logger.  pin holds the package variable
\* logLevel, pout the level prefixes of the entries written to standard
\* output, hist the last call and the level the logger was initialised with.

MaxMessages == 3

LogLevels == {B("debug"), B("info"), B("warn"), B("error"),
              B("Info"), B("DEBUG"), B("Warn"), <<>>}

NoLogHist == [calls |-> 0, kind |-> "", level |-> <<>>, written |-> 0]

InitLog ==
    /\ pc = "Logging"
    /\ inbuf = <<>>
    /\ peerClosed = FALSE
    /\ req = NoReq
    /\ resp = NoResp
    /\ wire = <<>>
    /\ fs = EmptyMap
    /\ closeCount = 0
    /\ closeReason = ""
    /\ hist = NoLogHist
    /\ pin = [logLevel |-> <<>>]
    /\ pout = <<>>

InitLogger(level) ==
    /\ pc = "Logging"
    /\ pin' = [logLevel |-> ToLower(level)]
    /\ hist' = [hist EXCEPT !.level = level]
    /\ UNCHANGED <<pc, inbuf, peerClosed, req, resp, wire, fs, closeCount,
                   closeReason, pout>>

\* logMessage: one entry on standard output, with the level as its prefix
logMessage(out, level) == Append(out, level)

\* what a call of one of the four log functions does: it writes an entry
\* when active is true
LogCall(kind, active) ==
    /\ pout' = IF active THEN logMessage(pout, kind) ELSE pout
    /\ hist' = [hist EXCEPT !.calls = @ + 1, !.kind = kind,
                            !.written = Len(pout)]
    /\ UNCHANGED <<pc, inbuf, peerClosed, req, resp, wire, fs, closeCount,
                   closeReason, pin>>

Info ==
    /\ pc = "Logging" /\ hist.calls < MaxMessages
    /\ LogCall("INFO", pin.logLevel = B("info") \/ pin.logLevel = B("debug"))

Debug ==
    /\ pc = "Logging" /\ hist.calls < MaxMessages
    /\ LogCall("DEBUG", pin.logLevel = B("debug"))

Warn ==
    /\ pc = "Logging" /\ hist.calls < MaxMessages
    /\ LogCall("WARN", pin.logLevel = B("warn") \/ pin.logLevel = B("debug"))

Error ==
    /\ pc = "Logging" /\ hist.calls < MaxMessages
    /\ LogCall("ERROR", TRUE)

NextLog ==
    \/ \E level \in LogLevels : InitLogger(level)
    \/ Info
    \/ Debug
    \/ Warn
    \/ Error

SpecLog == InitLog /\ [][NextLog]_vars

\* the levels that InitLogger documents as logged at the level it is given,
\* compared without regard to case
Logged(level) ==
    LET l == ToLower(level) IN
    IF l = B("debug") THEN {"DEBUG", "INFO", "WARN", "ERROR"}
    ELSE IF l = B("info") THEN {"INFO", "WARN", "ERROR"}
    ELSE IF l = B("warn") THEN {"WARN", "ERROR"}
    ELSE {"ERROR"}

\* C24: a message is emitted exactly when its level is one that InitLogger
\* documents for the configured level: at debug DEBUG, INFO, WARN and ERROR;
\* at info INFO, WARN and ERROR; at warn WARN and ERROR; at any other value
\* ERROR only; the configured level is compared case-insensitively.
LevelFiltering ==
    hist.calls > 0 =>
        IF hist.kind \in Logged(hist.level)
        THEN Len(pout) = hist.written + 1 /\ pout[Len(pout)] = hist.kind
        ELSE Len(pout) = hist.written

-----------------------------------------------------------------------------
\* The Connection header of the responses of the worker (specification Spec).

\* strings.EqualFold on ASCII text
EqualFold(a, b) == ToUpper(a) = ToUpper(b)

\* the Connection header lines of a frame on the wire
ConnectionLines(frame) ==
    {l \in frame.headers : HasPrefix(l, B("Connection: "))}

\* C25: every response the worker sends carries exactly one Connection
\* header, which is keep-alive when the Connection header of the request is
\* keep-alive compared without regard to case, and close in every other case
\* (absent, close, any other value).
OutgoingConnectionHeader ==
    [][Len(wire') = Len(wire) + 1 =>
          ConnectionLines(wire'[Len(wire')]) =
              {HeaderLine("Connection",
                          IF /\ HasKey(req.Headers, B("connection"))
                             /\ EqualFold(req.Headers[B("connection")],
                                          B("keep-alive"))
                          THEN B("keep-alive") ELSE B("close"))}]_vars

\* the request with Connection: Keep-Alive has been answered with
\* Connection: keep-alive, and the worker reads on
OutgoingConnectionHeaderWitness ==
    /\ hist.sent = <<4>>
    /\ Len(wire) = 1
    /\ ConnectionLines(wire[1]) = {HeaderLine("Connection", B("keep-alive"))}
    /\ pc = "Reading"

-----------------------------------------------------------------------------
\* Kinds and method restrictions of the routes, under SpecRoute.

\* the kind of the route that the k-th registration call added, by the call
\* and the pattern it was given
KindOf(k) ==
    IF pin.log[k].call = "HandleRegex" THEN "regex"
    ELSE IF pin.log[k].call = "HandlePrefix" THEN "prefix"
    ELSE IF pin.log[k].call = "Handle" /\ IndexByte(RouteAt(k).pattern, ":") # 0
    THEN "parameterized"
    ELSE "exact"

\* C26: a route serves a request only by the rule of its own kind: a regex
\* route only when its compiled pattern matches the path, an exact route
\* only on equality, a prefix route only when its pattern starts the path, a
\* parameterized route only on a segment match.
MatchedByOwnKind ==
    Dispatched =>
        \A k \in ServedBy :
            /\ KindOf(k) = "regex" =>
                  MatchString(RouteAt(k).regex, pout.in.Path)
            /\ KindOf(k) = "exact" => RouteAt(k).pattern = pout.in.Path
            /\ KindOf(k) = "prefix" =>
                  HasPrefix(pout.in.Path, RouteAt(k).pattern)
            /\ KindOf(k) = "parameterized" =>
                  SegmentsMatch(RouteAt(k).pattern, pout.in.Path)

\* the calls that registered a route with a method restriction
Restricted == {k \in RouteCalls : pin.log[k].method # ""}

\* C27: a route registered with a method, in any letter case, serves only
\* requests whose method equals it ignoring case, and a request whose method
\* equals it ignoring case and whose path it matches is served, whatever the
\* case the client used; a route registered by HandleRegex or by
\* RouteGroup.Handle has no restriction, and a request whose path it matches
\* is served under every method.
MethodRestriction ==
    /\ \A k \in RouteCalls :
          pin.log[k].call \in {"HandleRegex", "RouteGroup.Handle"}
              <=> k \notin Restricted
    /\ Dispatched =>
          /\ \A k \in ServedBy \cap Restricted :
                EqualFold(B(pin.log[k].method), pout.in.Method)
          /\ \A k \in RouteCalls :
                (/\ PatternMatches(k, pout.in)
                 /\ k \in Restricted =>
                        EqualFold(B(pin.log[k].method), pout.in.Method))
                => ServedBy # {}

\* a route registered for "post" serves a request whose method is "Post"
MethodRestrictionWitness ==
    /\ Dispatched
    /\ RouteCalls = {1}
    /\ pin.log[1].call = "Handle" /\ pin.log[1].method = "post"
    /\ pout.in.Method = B("Post") /\ pout.in.Path = B("/")
    /\ ServedBy = {1}

-----------------------------------------------------------------------------
\* The end of the stream inside a request (specification Spec).

\* C28: the worker takes the end of the stream for the clean shutdown of a
\* peer that closed before sending any data only when no byte of a request
\* has arrived; a stream that ends inside a request is a parse failure.
TruncatedIsNotEndOfStream ==
    [][(pc = "Reading" /\ pc' = "Closed" /\ closeReason' = "eof")
          => inbuf = <<>>]_vars

-----------------------------------------------------------------------------
\* Specification SpecEdge: ParseRequest as a pure function on request texts
\* written byte by byte: request lines with missing, spare and empty tokens,
\* and Content-Length values at and beyond the limits.

EdgeRequestLines ==
    {B("GET / HTTP/1.1"), B("GET  HTTP/1.1"), B("GET  / HTTP/1.1"),
     B("GET /"), B("GET / HTTP/1.1 x"), B("GET"), <<>>}

\* the values of the Content-Length header; unset is a request without one
EdgeLengths ==
    {[set |-> FALSE, value |-> <<>>]} \cup
    {[set |-> TRUE, value |-> B(v)] :
        v \in {"x", "", "2.0", "0x10", "2", "10485760", "10485761",
                "0010485761", "99999999999999999999"}}

EdgePayloads == {<<>>, B("hi"), B("hi!")}

EdgeInputs ==
    [line : EdgeRequestLines, length : EdgeLengths, payload : EdgePayloads,
     end : {"eof", "timeout"}]

\* the request line and the header block, as the client writes them
EdgeHead(in) ==
    in.line \o CRLF
    \o (IF in.length.set
        THEN B("Content-Length: ") \o in.length.value \o CRLF ELSE <<>>)
    \o CRLF

EdgeText(in) == EdgeHead(in) \o in.payload

InitEdge ==
    /\ IdleConn
    /\ pin \in EdgeInputs
    /\ pout = NoOut

EdgeApply ==
    /\ pout = NoOut
    /\ pout' = ParseRequest(EdgeText(pin), pin.end)
    /\ UNCHANGED <<connVars, pin>>

NextEdge == EdgeApply

SpecEdge == InitEdge /\ [][NextEdge]_vars

\* a value made of decimal digits, at least one
IsDecimal(v) == v # <<>> /\ \A i \in 1..Len(v) : IsDigit(v[i])

\* the position of the first digit of v that is not a leading zero
FirstSignificant(v) ==
    LET nz == {i \in 1..Len(v) : v[i] # "0"} IN
    IF nz = {} THEN Len(v) ELSE CHOOSE i \in nz : \A j \in nz : i <= j

\* whether the decimal value v is greater than MaxBodySize, digit by digit
ExceedsMaxBodySize(v) ==
    LET t == SubSeq(v, FirstSignificant(v), Len(v))
        cap == Itoa(MaxBodySize)
    IN  \/ Len(t) > Len(cap)
        \/ /\ Len(t) = Len(cap)
           /\ \E i \in 1..Len(t) :
                 /\ DigitVal(t[i]) > DigitVal(cap[i])
                 /\ \A j \in 1..(i - 1) : t[j] = cap[j]

\* C29: a Content-Length value that is not a decimal integer fails the parse
\* with invalid Content-Length, a declared length greater than MaxBodySize
\* with request body too large, and a length equal to MaxBodySize with
\* neither; the two failures return no request and leave the bytes after the
\* header block unread.
ContentLengthRejections ==
    (pout # NoOut /\ pin.line = B("GET / HTTP/1.1") /\ pin.length.set) =>
        LET v == pin.length.value
            rejected == /\ pout.req = NoReq
                        /\ pout.used = Len(EdgeHead(pin))
        IN  /\ ~IsDecimal(v) =>
                  pout.err = "invalid Content-Length" /\ rejected
            /\ (IsDecimal(v) /\ ExceedsMaxBodySize(v)) =>
                  pout.err = "request body too large" /\ rejected
            /\ (IsDecimal(v) /\ ~ExceedsMaxBodySize(v)) =>
                  pout.err \notin {"invalid Content-Length",
                                   "request body too large"}

\* the number of tokens of a line: its maximal runs of bytes other than space
TokenCount(line) ==
    Cardinality({i \in 1..Len(line) :
                    line[i] # " " /\ (i = 1 \/ line[i - 1] = " ")})

\* C30: a request line that does not hold exactly three tokens fails the
\* parse with malformed request line, no request is returned, and no byte
\* after the line is interpreted.
ThreeTokens ==
    (pout # NoOut /\ TokenCount(pin.line) # 3) =>
        /\ pout.err = "malformed request line"
        /\ pout.req = NoReq
        /\ pout.used = Len(pin.line \o CRLF)

-----------------------------------------------------------------------------
\* Specification SpecHeaders: ParseRequest as a pure function on requests
\* whose header block is written line by line: names in several letter
\* cases, spaces around names and values, values with colons, and lines
\* without a colon.

MaxRawLines == 2

RawLines ==
    {B("Host: a"), B("HOST:b:c"), B("  X-A  :  v w  "), B("host :"),
     B("nocolon"), B("x-a:1: 2")}

RawInputs ==
    [lines : SeqsUpTo(RawLines, MaxRawLines), nl : Terminators,
     end : {"eof", "timeout"}]

RECURSIVE RawBlock(_, _)
RawBlock(lines, nl) ==
    IF lines = <<>> THEN <<>>
    ELSE Head(lines) \o nl \o RawBlock(Tail(lines), nl)

RawText(in) ==
    B("GET / HTTP/1.1") \o in.nl \o RawBlock(in.lines, in.nl) \o in.nl

InitHeaders ==
    /\ IdleConn
    /\ pin \in RawInputs
    /\ pout = NoOut

HeadersApply ==
    /\ pout = NoOut
    /\ pout' = ParseRequest(RawText(pin), pin.end)
    /\ UNCHANGED <<connVars, pin>>

NextHeaders == HeadersApply

SpecHeaders == InitHeaders /\ [][NextHeaders]_vars

\* s without the spaces around it
Strip(s) ==
    LET inked == {i \in 1..Len(s) : s[i] # " "} IN
    IF inked = {} THEN <<>>
    ELSE SubSeq(s, CHOOSE i \in inked : \A j \in inked : i <= j,
                CHOOSE i \in inked : \A j \in inked : j <= i)

HasColon(line) == \E i \in 1..Len(line) : line[i] = ":"

FirstColon(line) ==
    CHOOSE i \in 1..Len(line) :
        line[i] = ":" /\ \A j \in 1..(i - 1) : line[j] # ":"

\* name and value of a header line that holds a colon
RawName(line) == Strip(SubSeq(line, 1, FirstColon(line) - 1))
RawValue(line) == Strip(SubSeq(line, FirstColon(line) + 1, Len(line)))

IsLowercase(k) == \A i \in 1..Len(k) : IndexByte(UpperLetters, k[i]) = 0

\* the places of the header lines of the input that hold a colon
ColonLines == {i \in 1..Len(pin.lines) : HasColon(pin.lines[i])}

\* C31: after a successful parse every key of Headers is lowercase; the keys
\* are the names of the header lines, cut at the first colon and stripped
\* of surrounding spaces, in lower case; and the value under a key is the
\* stripped text after the first colon of the last line with that name in
\* any letter case, colons included.
HeadersNormalised ==
    (pout # NoOut /\ pout.err = "") =>
        /\ \A k \in DOMAIN pout.req.Headers : IsLowercase(k)
        /\ \A i \in ColonLines :
              \E k \in DOMAIN pout.req.Headers :
                  /\ EqualFold(k, RawName(pin.lines[i]))
                  /\ (\A j \in ColonLines :
                         j > i => ~EqualFold(RawName(pin.lines[j]),
                                             RawName(pin.lines[i])))
                     => pout.req.Headers[k] = RawValue(pin.lines[i])
        /\ \A k \in DOMAIN pout.req.Headers :
              \E i \in ColonLines : EqualFold(k, RawName(pin.lines[i]))

\* "Host: a" then "HOST:b:c" parsed into the one header host with value b:c
HeadersNormalisedWitness ==
    /\ pout # NoOut /\ pout.err = ""
    /\ pin.lines = <<B("Host: a"), B("HOST:b:c")>>
    /\ DOMAIN pout.req.Headers = {B("host")}
    /\ pout.req.Headers[B("host")] = B("b:c")

\* C32: a request is returned only when every non-empty line of its header
\* block holds a colon.
HeaderLinesHoldColon ==
    (pout # NoOut /\ pout.err = "") =>
        \A i \in 1..Len(pin.lines) : HasColon(pin.lines[i])

-----------------------------------------------------------------------------
\* Specification SpecLive: the worker of Spec with a peer that may stop
\* reading, and the fairness its scheduling gives.  handleConnection sets a
\* read deadline (line 107) and no write deadline: a Write to a peer that
\* does not read, its buffers full, returns only when the peer reads again.
\* pout says whether the peer is in that state, or has been.

StalledPeer == [NoOut EXCEPT !.err = "stalled"]
ResumedPeer == [NoOut EXCEPT !.err = "resumed"]

Stalled == pout = StalledPeer

\* the peer stops reading and the buffers towards it are full
PeerStall ==
    /\ Running
    /\ ~Stalled
    /\ pout' = StalledPeer
    /\ UNCHANGED <<connVars, pin>>

\* the peer reads again
PeerResume ==
    /\ Running
    /\ Stalled
    /\ pout' = ResumedPeer
    /\ UNCHANGED <<connVars, pin>>

\* SendResponse, whose writes return once the peer takes the bytes
SendLive ==
    /\ ~Stalled
    /\ Send

NextLive ==
    \/ \E i \in 1..Len(ClientReqs) : ClientSend(i)
    \/ ClientClose
    \/ Parse
    \/ ReadTimeout
    \/ Dispatch
    \/ SendLive
    \/ PeerStall
    \/ PeerResume

\* the states in which each step of the worker can be taken: ENABLED of the
\* step, written out from its guard
CanParse ==
    pc = "Reading" /\ (ParseRequest(inbuf, "open").err # "block" \/ peerClosed)
CanTimeout ==
    pc = "Reading" /\ ParseRequest(inbuf, "open").err = "block" /\ ~peerClosed
CanDispatch == pc = "Dispatching"
CanSend == pc = "Writing" /\ ~Stalled

\* weak fairness of the four steps of the worker: the worker's goroutine is
\* scheduled, the read deadline passes, and a write the peer takes returns.
\* The peer owes nothing. WF_vars(Parse), WF_vars(ReadTimeout) and
\* WF_vars(Dispatch) are written in the form []<>~ENABLED \/ []<><<step>>_vars.
SpecLive ==
    /\ Init
    /\ [][NextLive]_vars
    /\ ([]<>~CanParse \/ []<><<Parse>>_vars)
    /\ ([]<>~CanTimeout \/ []<><<ReadTimeout>>_vars)
    /\ ([]<>~CanDispatch \/ []<><<Dispatch>>_vars)
    /\ WF_vars(SendLive)

\* C33: every worker eventually ends and closes its connection; none stays
\* in Reading or Writing forever.
WorkerEventuallyCloses == <>(pc \in {"Closed", "Panicked"} /\ closeCount > 0)

-----------------------------------------------------------------------------
\* Specification SpecDeadline: the worker of Spec with the clock of its host
\* and the read deadline of its connection. pout holds the clock (now, in
\* seconds), the deadline of the connection, the time at which the current
\* iteration of the loop began (top) and whether the iteration has passed
\* line 107 and is inside ParseRequest (armed).

\* the 5 seconds of line 107
ReadDeadline == 5

MaxTime == 6

\* the requests of the client: keep-alive, close, and one cut short
DeadlineReqs == {1, 2, 10}

NoDeadline == [set |-> FALSE, at |-> 0]

InitDeadline ==
    /\ pc = "Reading"
    /\ inbuf = <<>>
    /\ peerClosed = FALSE
    /\ req = NoReq
    /\ resp = NoResp
    /\ wire = <<>>
    /\ fs = EmptyMap
    /\ closeCount = 0
    /\ closeReason = ""
    /\ hist = NoHist
    /\ pin = NoIn
    /\ pout = [now |-> 0, deadline |-> NoDeadline, top |-> 0, armed |-> FALSE]

\* a deadline that is set once, when the connection has none
SetReadDeadlineOnce(conn, t) ==
    IF conn.deadline.set THEN conn
    ELSE [conn EXCEPT !.deadline = [set |-> TRUE, at |-> t]]

\* conn.SetReadDeadline(t)
SetReadDeadline(conn, t) == [conn EXCEPT !.deadline = [set |-> TRUE, at |-> t]]

\* the first statement of the loop body (line 107)
LoopTop ==
    /\ pc = "Reading"
    /\ ~pout.armed
    /\ pout' = [SetReadDeadline(pout, pout.now + ReadDeadline)
                  EXCEPT !.top = pout.now, !.armed = TRUE]
    /\ UNCHANGED <<connVars, pin>>

Expired == pout.deadline.set /\ pout.now >= pout.deadline.at

\* ParseRequest (line 109) returns on the bytes received or the end of the
\* stream
ParseTimed ==
    /\ pc = "Reading"
    /\ pout.armed
    /\ ParseRequest(inbuf, "open").err # "block" \/ peerClosed
    /\ AfterParse(ParseRequest(inbuf, IF peerClosed THEN "eof" ELSE "open"))
    /\ pout' = [pout EXCEPT !.armed = FALSE]
    /\ UNCHANGED <<peerClosed, fs, pin>>

\* the read of ParseRequest fails once the deadline of the connection has
\* passed
TimeoutTimed ==
    /\ pc = "Reading"
    /\ pout.armed
    /\ Expired
    /\ ParseRequest(inbuf, "open").err = "block"
    /\ ~peerClosed
    /\ AfterParse(ParseRequest(inbuf, "timeout"))
    /\ pout' = [pout EXCEPT !.armed = FALSE]
    /\ UNCHANGED <<peerClosed, fs, pin>>

\* a second passes
Tick ==
    /\ Running
    /\ pout.now < MaxTime
    /\ pout' = [pout EXCEPT !.now = @ + 1]
    /\ UNCHANGED <<connVars, pin>>

NextDeadline ==
    \/ \E i \in DeadlineReqs : ClientSend(i)
    \/ ClientClose
    \/ LoopTop
    \/ ParseTimed
    \/ TimeoutTimed
    \/ Dispatch
    \/ Send
    \/ Tick

SpecDeadline == InitDeadline /\ [][NextDeadline]_vars

\* a call of ParseRequest returns
ParseReturns == pc = "Reading" /\ pc' # "Reading"

\* C34: every call of ParseRequest, the first and each one after a keep-alive
\* response, runs under a deadline set at the top of its own iteration: when
\* it returns, the deadline of the connection is 5 seconds after the time the
\* iteration began, and it fails on the deadline no earlier than that.
FreshDeadlineBeforeParse ==
    [][ParseReturns =>
          /\ pout.deadline = [set |-> TRUE, at |-> pout.top + ReadDeadline]
          /\ (ParseRequest(inbuf, "open").err = "block" /\ ~peerClosed)
                => pout.now >= pout.top + ReadDeadline]_vars

\* C34 witness: a second request has been parsed on a kept-alive connection,
\* in an iteration that began after the clock had advanced
FreshDeadlineBeforeParseWitness ==
    /\ hist.parsed = 2
    /\ pc = "Dispatching"
    /\ pout.top > 0
    /\ Len(wire) = 1

-----------------------------------------------------------------------------
\* Specification SpecAccept: the accept loop of StartServer (lines 68-75) and
\* the workers it starts. pin holds the loop: its position (pc: "Accept" at
\* line 69, "Spawn" at line 74), the connection Accept returned (conn), the
\* connections waiting in the listener (backlog), those that have connected
\* (connected), those Accept has returned (accepted), those a worker was
\* started for (started) and the count of failed Accepts (failures). pout
\* holds the position of the worker of each connection. A worker in Reading
\* waits for its client, one in Writing for its peer, one in Sleeping is
\* inside the time.Sleep of a streaming producer.

MaxConns == 2

\* the requests a worker serves and the chunks a producer writes are counted
\* up to these
MaxServed == 1

MaxChunks == 1

MaxAcceptFailures == 2

Conns == 1..MaxConns

NoLoop == [pc |-> "Accept", conn |-> 0, backlog |-> <<>>, connected |-> {},
           accepted |-> <<>>, started |-> <<>>, failures |-> 0]

NoWorker == [pc |-> "NotStarted", served |-> 0, chunks |-> 0]

InitAccept ==
    /\ pc = "Reading"
    /\ inbuf = <<>>
    /\ peerClosed = FALSE
    /\ req = NoReq
    /\ resp = NoResp
    /\ wire = <<>>
    /\ fs = EmptyMap
    /\ closeCount = 0
    /\ closeReason = ""
    /\ hist = NoHist
    /\ pin = NoLoop
    /\ pout = [c \in Conns |-> NoWorker]

\* a client connects to the listener
Connect(c) ==
    /\ c \notin pin.connected
    /\ pin' = [pin EXCEPT !.connected = @ \cup {c}, !.backlog = Append(@, c)]
    /\ UNCHANGED <<connVars, pout>>

\* listener.Accept() returns a connection (line 69)
AcceptOK ==
    /\ pin.pc = "Accept"
    /\ pin.backlog # <<>>
    /\ pin' = [pin EXCEPT !.pc = "Spawn", !.conn = Head(pin.backlog),
                          !.backlog = Tail(@),
                          !.accepted = Append(@, Head(pin.backlog))]
    /\ UNCHANGED <<connVars, pout>>

\* listener.Accept() returns an error: the loop continues (lines 70-73)
AcceptFails ==
    /\ pin.pc = "Accept"
    /\ pin.failures < MaxAcceptFailures
    /\ pin' = [pin EXCEPT !.failures = @ + 1]
    /\ UNCHANGED <<connVars, pout>>

\* a call of handleConnection on the goroutine of the loop: the loop goes on
\* when the call returns
CallInline(loop) ==
    [loop EXCEPT !.pc = "InCall", !.started = Append(@, loop.conn)]

\* the go statement (line 74): the loop goes on at once
Go(loop) ==
    [loop EXCEPT !.pc = "Accept", !.started = Append(@, loop.conn), !.conn = 0]

Spawn ==
    /\ pin.pc = "Spawn"
    /\ pout' = [pout EXCEPT ![pin.conn].pc = "Reading"]
    /\ pin' = Go(pin)
    /\ UNCHANGED connVars

\* ParseRequest returns a request to the worker of c
WkParsed(c) ==
    /\ pout[c].pc = "Reading"
    /\ pout[c].served < MaxServed
    /\ pout' = [pout EXCEPT ![c].pc = "Dispatching"]
    /\ UNCHANGED <<connVars, pin>>

\* ParseRequest fails: the worker returns
WkFailed(c) ==
    /\ pout[c].pc = "Reading"
    /\ pout' = [pout EXCEPT ![c].pc = "Closed"]
    /\ UNCHANGED <<connVars, pin>>

\* router.Route returns
WkRouted(c) ==
    /\ pout[c].pc = "Dispatching"
    /\ pout' = [pout EXCEPT ![c].pc = "Writing", ![c].chunks = 0]
    /\ UNCHANGED <<connVars, pin>>

\* the producer of a streamed response writes a chunk and sleeps
WkSleep(c) ==
    /\ pout[c].pc = "Writing"
    /\ pout[c].chunks < MaxChunks
    /\ pout' = [pout EXCEPT ![c].pc = "Sleeping", ![c].chunks = @ + 1]
    /\ UNCHANGED <<connVars, pin>>

WkWake(c) ==
    /\ pout[c].pc = "Sleeping"
    /\ pout' = [pout EXCEPT ![c].pc = "Writing"]
    /\ UNCHANGED <<connVars, pin>>

\* SendResponse returns and the loop of the worker goes on
WkSentKeepAlive(c) ==
    /\ pout[c].pc = "Writing"
    /\ pout' = [pout EXCEPT ![c].pc = "Reading", ![c].served = @ + 1]
    /\ UNCHANGED <<connVars, pin>>

\* SendResponse returns and the worker returns
WkSentClose(c) ==
    /\ pout[c].pc = "Writing"
    /\ pout' = [pout EXCEPT ![c].pc = "Closed", ![c].served = @ + 1]
    /\ UNCHANGED <<connVars, pin>>

WkStep(c) ==
    \/ WkParsed(c)
    \/ WkFailed(c)
    \/ WkRouted(c)
    \/ WkSleep(c)
    \/ WkWake(c)
    \/ WkSentKeepAlive(c)
    \/ WkSentClose(c)

NextAccept ==
    \/ \E c \in Conns : Connect(c)
    \/ AcceptOK
    \/ AcceptFails
    \/ Spawn
    \/ \E c \in Conns : WkParsed(c)
    \/ \E c \in Conns : WkFailed(c)
    \/ \E c \in Conns : WkRouted(c)
    \/ \E c \in Conns : WkSleep(c)
    \/ \E c \in Conns : WkWake(c)
    \/ \E c \in Conns : WkSentKeepAlive(c)
    \/ \E c \in Conns : WkSentClose(c)

SpecAccept == InitAccept /\ [][NextAccept]_vars

\* the worker of c has started and has not returned
WkActive(c) ==
    /\ pout[c].pc \in {"Reading", "Dispatching", "Writing", "Sleeping"}

Occurrences(seq, x) == Cardinality({i \in 1..Len(seq) : seq[i] = x})

\* C35: one worker is started for each accepted connection (the one accepted
\* last may be at the go statement); the loop is at Accept or at the go
\* statement and never waits for a worker; whatever the workers are blocked
\* in, the loop can take a waiting connection and start its worker, and every
\* other worker that has not returned can take its next step; after a failed
\* Accept the loop is still accepting.
AcceptLoopIndependent ==
    /\ pin.pc \in {"Accept", "Spawn"}
    /\ pin.accepted = IF pin.pc = "Spawn" THEN Append(pin.started, pin.conn)
                                          ELSE pin.started
    /\ \A c \in Conns :
         /\ Occurrences(pin.started, c) = IF pout[c].pc = "NotStarted" THEN 0 ELSE 1
         /\ Occurrences(pin.accepted, c) <= 1
         /\ WkActive(c) => ENABLED WkStep(c)
    /\ (pin.pc = "Accept" /\ pin.backlog # <<>>) => ENABLED AcceptOK
    /\ pin.pc = "Spawn" => ENABLED Spawn

\* C35 witness: with the worker of one connection asleep in a streaming
\* producer an Accept has failed, and after it another connection has been
\* accepted and its worker has served a request
AcceptLoopIndependentWitness ==
    /\ pin.failures > 0
    /\ Len(pin.started) = 2
    /\ pout[pin.started[1]].pc = "Sleeping"
    /\ pout[pin.started[2]].pc = "Reading"
    /\ pout[pin.started[2]].served = 1
    /\ pin.pc = "Accept"

-----------------------------------------------------------------------------
\* Specification SpecConcurrent: calls of Router.Route by two workers at once,
\* on the router they share. A call goes through the routes one pass of its
\* loop at a time, so the passes of the two calls interleave. pin holds the
\* router as it was built (initial) and as it is (router), the files and the
\* count of calls begun; pout holds each worker's call: the request as it was
\* handed in (in) and as it is (req), the index of the route the loop is at
\* (at), the response, the files the handler found (seen) and whether another
\* call was in progress during this one (overlap).

MaxCalls == 2

RouteWorkers == {"w1", "w2"}

\* a router with a parameterized route, prefix routes and a group
GroupedRouter ==
    [routes |-> <<ExactRoute("/u/:id", "GET", "handleUserByID"),
                  PrefixRoute("/files/", "POST", "handleFiles"),
                  PrefixRoute("/files/", "GET", "handleFiles")>>,
     groups |-> <<[prefix |-> B("/api"),
                   routes |-> <<[pattern |-> B("/api/ping"), method |-> <<>>,
                                 handler |-> "handleRoot", isPrefix |-> FALSE,
                                 regex |-> NoRegex]>>]>>]

ConcurrentRequest(method, path, body) ==
    [NoReq EXCEPT !.Method = B(method), !.Path = B(path),
                  !.Version = HTTPVersion, !.Body = B(body)]

ConcurrentRequests ==
    {ConcurrentRequest("GET", "/echo/hello", ""),
     ConcurrentRequest("POST", "/files/a", "hi"),
     ConcurrentRequest("GET", "/files/a", ""),
     ConcurrentRequest("GET", "/u/7", ""),
     ConcurrentRequest("GET", "/api/ping", ""),
     ConcurrentRequest("GET", "/nowhere", "")}

NoCall == [pc |-> "Idle", in |-> NoReq, req |-> NoReq, at |-> 0,
           resp |-> NoResp, seen |-> EmptyMap, ioOK |-> TRUE,
           overlap |-> FALSE]

InitConcurrent ==
    /\ pc = "Reading"
    /\ inbuf = <<>>
    /\ peerClosed = FALSE
    /\ req = NoReq
    /\ resp = NoResp
    /\ wire = <<>>
    /\ fs = EmptyMap
    /\ closeCount = 0
    /\ closeReason = ""
    /\ hist = NoHist
    /\ \E router \in {ServerRouter, GroupedRouter} :
          pin = [initial |-> router, router |-> router,
                 fs |-> [k \in {FilePath(B("a"))} |-> B("data")], calls |-> 0]
    /\ pout = [w \in RouteWorkers |-> NoCall]

\* a worker calls router.Route(req)
RouteBegin(w, r) ==
    /\ pout[w].pc = "Idle"
    /\ pin.calls < MaxCalls
    /\ LET busy == \E v \in RouteWorkers : pout[v].pc = "Scanning" IN
       pout' = [v \in RouteWorkers |->
                  IF v = w
                  THEN [NoCall EXCEPT !.pc = "Scanning", !.in = r, !.req = r,
                                      !.at = 1, !.overlap = busy]
                  ELSE IF pout[v].pc = "Scanning"
                  THEN [pout[v] EXCEPT !.overlap = TRUE]
                  ELSE pout[v]]
    /\ pin' = [pin EXCEPT !.calls = @ + 1]
    /\ UNCHANGED connVars

\* a Route that moves the route it takes to the front of the routes
RouterMoveToFront(router, at) ==
    [router EXCEPT !.routes = <<@[at]>> \o SubSeq(@, 1, at - 1)
                                \o SubSeq(@, at + 1, Len(@))]

\* the router after Route has taken its at-th route: Route assigns to no field
\* of the router, of a group or of a route (lines 135-170)
RouterAfterRoute(router, at) == router

\* the route the loop of the call of w is at takes the request
RouteTakes(w) ==
    /\ pout[w].at <= Len(pin.router.routes)
    /\ MethodAllows(pin.router.routes[pout[w].at], pout[w].req)
    /\ TopLevelMatch(pin.router.routes[pout[w].at], pout[w].req).hit

\* one pass of the first loop that goes on to the next route (lines 136-157)
RouteSkip(w) ==
    /\ pout[w].pc = "Scanning"
    /\ pout[w].at <= Len(pin.router.routes)
    /\ ~RouteTakes(w)
    /\ pout' = [pout EXCEPT ![w].at = @ + 1]
    /\ UNCHANGED <<connVars, pin>>

\* the pass of the first loop that calls the handler and returns
RouteHit(w) ==
    /\ pout[w].pc = "Scanning"
    /\ RouteTakes(w)
    /\ \E ioOK \in BOOLEAN :
         LET route == pin.router.routes[pout[w].at]
             r2 == [pout[w].req EXCEPT
                       !.Params = TopLevelMatch(route, pout[w].req).params]
             out == Call(route.handler, r2, pin.fs, ioOK)
         IN  /\ pout' = [pout EXCEPT ![w].pc = "Done", ![w].req = r2,
                                      ![w].resp = out.resp, ![w].seen = pin.fs,
                                      ![w].ioOK = ioOK]
             /\ pin' = [pin EXCEPT !.fs = out.fs,
                                   !.router = RouterAfterRoute(@, pout[w].at)]
    /\ UNCHANGED connVars

\* the second loop, over the groups, and the 404 after it (lines 158-169)
RouteGroups(w) ==
    /\ pout[w].pc = "Scanning"
    /\ pout[w].at > Len(pin.router.routes)
    /\ \E ioOK \in BOOLEAN :
         LET grouped == Flatten(pin.router.groups)
             grp == {i \in 1..Len(grouped) :
                        /\ MethodAllows(grouped[i], pout[w].req)
                        /\ grouped[i].pattern = pout[w].req.Path}
             out == IF grp = {}
                    THEN [resp |-> NotFoundResponse, fs |-> pin.fs]
                    ELSE Call(grouped[CHOOSE i \in grp : \A j \in grp : i <= j]
                                 .handler, pout[w].req, pin.fs, ioOK)
         IN  /\ pout' = [pout EXCEPT ![w].pc = "Done", ![w].resp = out.resp,
                                      ![w].seen = pin.fs, ![w].ioOK = ioOK]
             /\ pin' = [pin EXCEPT !.fs = out.fs]
    /\ UNCHANGED connVars

\* the worker goes on with the response
RouteEnd(w) ==
    /\ pout[w].pc = "Done"
    /\ pout' = [pout EXCEPT ![w] = NoCall]
    /\ UNCHANGED <<connVars, pin>>

NextConcurrent ==
    \/ \E w \in RouteWorkers, r \in ConcurrentRequests : RouteBegin(w, r)
    \/ \E w \in RouteWorkers : RouteSkip(w)
    \/ \E w \in RouteWorkers : RouteHit(w)
    \/ \E w \in RouteWorkers : RouteGroups(w)
    \/ \E w \in RouteWorkers : RouteEnd(w)

SpecConcurrent == InitConcurrent /\ [][NextConcurrent]_vars

\* C36: the router stays as it was built, and a call that has returned, however
\* its passes interleaved with those of another call, has the response and
\* the request (its Params) that Route gives for that request alone on the
\* router as built, with the files its handler found.
RouteLeavesRouter ==
    /\ pin.router = pin.initial
    /\ \A w \in RouteWorkers :
          pout[w].pc = "Done" =>
             LET alone == Route(pin.initial, pout[w].in, pout[w].seen,
                                pout[w].ioOK)
             IN  /\ pout[w].resp = alone.resp
                 /\ pout[w].req = alone.req

\* C36 witness: two calls that overlapped have returned, one through a
\* parameterized route that wrote the Params of its request
RouteLeavesRouterWitness ==
    /\ \A w \in RouteWorkers : pout[w].pc = "Done" /\ pout[w].overlap
    /\ pout["w1"].req.Params # NoParams
    /\ pout["w2"].resp.Status = 404

-----------------------------------------------------------------------------
\* C37: under SpecFiles, a call of handleFiles whose file system call fails
\* answers 500: a failed write on POST or PUT, and a failed read on GET or
\* HEAD or a failed delete of a file that exists; and 404 is answered only
\* when the file does not exist. (A call that answers 404 or 500 leaves the
\* files as they were, so fs tells whether the file existed.)
IOFailuresGive500 ==
    (pc = "Files" /\ hist.ops > 0) =>
        /\ (/\ ~hist.ioOK
            /\ \/ req.Method \in {B("POST"), B("PUT")}
               \/ HasKey(fs, FilePath(hist.name)))
              => resp.Status = 500
        /\ resp.Status = 404 => ~HasKey(fs, FilePath(hist.name))

-----------------------------------------------------------------------------
\* C38: under Spec, when a parse returns a request, every byte the client had
\* sent after the end of that request is still there for the next parse:
\* what is left to read is what was received less the bytes of the request.
NoByteLostBetweenParses ==
    [][(pc = "Reading" /\ pc' = "Dispatching") =>
          inbuf' = SubSeq(inbuf,
                          ParseRequest(inbuf, IF peerClosed THEN "eof"
                                                            ELSE "open").used + 1,
                          Len(inbuf))]_vars

-----------------------------------------------------------------------------
\* the responses written so far answer the requests parsed so far, in order
AnsweredInOrder(k) ==
    /\ Len(wire) = k
    /\ \A i \in 1..Len(wire) : wire[i].n = i

\* SendResponse has been called once for each of the first k requests
Attempted(k) == Len(hist.attempted) = k

\* C39: under Spec, the i-th response on the wire answers the i-th request
\* parsed; the router has been called once for each request parsed (not yet
\* for the one being dispatched); while a request is dispatched or its
\* response written, all requests before it are answered and it is not; when
\* the worker parses again, and when it has returned, every request parsed
\* is answered by one call of SendResponse, whose response is on the wire
\* unless the write to the connection failed.
OneResponsePerRequest ==
    /\ hist.routed = hist.parsed - (IF pc = "Dispatching" THEN 1 ELSE 0)
    /\ pc \in {"Dispatching", "Writing"} =>
          AnsweredInOrder(hist.parsed - 1) /\ Attempted(hist.parsed - 1)
    /\ pc = "Reading" => AnsweredInOrder(hist.parsed) /\ Attempted(hist.parsed)
    /\ pc \in {"Closed", "Panicked"} =>
          /\ Attempted(hist.parsed)
          /\ AnsweredInOrder(hist.parsed - (IF closeReason = "send" THEN 1 ELSE 0))

\* C39 witness: two requests of a kept-alive connection have been answered
\* and the worker is about to parse again
OneResponsePerRequestWitness ==
    /\ pc = "Reading"
    /\ hist.parsed = 2
    /\ Len(wire) = 2
    /\ wire[2].n = 2

====
